---------------------------- MODULE Spec2Model ----------------------------
(***************************************************************************)
(* A model of KLEE's Firehose reporting code:                              *)
(*   - determineFirehoseFailureInfoId, the diagnostic classifier           *)
(*     (lib/Support/ErrorHandling.cpp);                                    *)
(*   - the message router klee_vmessage and its entry points klee_message, *)
(*     klee_message_to_file, klee_warning, klee_warning_once, klee_error;  *)
(*   - the Firehose value types and their toXML serializers                *)
(*     (lib/Support/Firehose.cpp, include/klee/Firehose.h).                *)
(*                                                                         *)
(* A C string is modelled as the sequence of its characters (without the   *)
(* terminating NUL); a `const char *' argument is an address into StrAt.   *)
(***************************************************************************)
EXTENDS Integers, Sequences, FiniteSets, TLC

VARIABLES
  whole_msg,            \* classifier: the argument of the current call
  elementId,            \* classifier: the value the call returned
  klee_firehose_file,   \* FILE *: "NULL", "open" or "closed"
  klee_warning_file,    \* FILE *: "NULL" or "open"
  klee_message_file,    \* FILE *: "NULL" or "open"
  firehose_xml,         \* lines written to klee_firehose_file
  warnings_txt,         \* lines written to klee_warning_file
  messages_txt,         \* lines written to klee_message_file
  stderr_out,           \* lines written to stderr
  keys,                 \* the static std::set of klee_warning_once
  exited,               \* TRUE once klee_error has called exit(1)
  calls,                \* history of the entry points called so far
  node,                 \* serializer: the value last constructed
  xml,                  \* serializer: what toXML returned for node
  pc,                   \* threads: where each thread is in klee_warning_once
  frame,                \* threads: the arguments and locals of each call
  mutex,                \* threads: the holder of the external lock, 0 if free
  serialized            \* threads: TRUE if the callers take the lock

vars == <<whole_msg, elementId, klee_firehose_file, klee_warning_file,
          klee_message_file, firehose_xml, warnings_txt, messages_txt,
          stderr_out, keys, exited, calls, node, xml, pc, frame, mutex,
          serialized>>

classifierVars == <<whole_msg, elementId>>

routerVars == <<klee_firehose_file, klee_warning_file, klee_message_file,
                firehose_xml, warnings_txt, messages_txt, stderr_out, keys,
                exited, calls>>

serializerVars == <<node, xml>>

threadVars == <<pc, frame, mutex, serialized>>

-----------------------------------------------------------------------------
(* String literals of ErrorHandling.cpp.                                   *)

\* "WARNING"
warningPrefix ==
  <<"W","A","R","N","I","N","G">>

\* "WARNING ONCE"
warningOncePrefix ==
  <<"W","A","R","N","I","N","G"," ","O","N","C","E">>

\* "ERROR"
errorPrefix ==
  <<"E","R","R","O","R">>

\* "NOTE"
notePrefix ==
  <<"N","O","T","E">>

\* "undefined reference to function"
msg_undefined_function ==
  <<"u","n","d","e","f","i","n","e","d"," ","r","e","f","e","r","e","n","c",
  "e"," ","t","o"," ","f","u","n","c","t","i","o","n">>

\* "undefined reference to variable"
msg_undefined_variable ==
  <<"u","n","d","e","f","i","n","e","d"," ","r","e","f","e","r","e","n","c",
  "e"," ","t","o"," ","v","a","r","i","a","b","l","e">>

\* "calling external"
msg_calling_external ==
  <<"c","a","l","l","i","n","g"," ","e","x","t","e","r","n","a","l">>

\* "calling __user_main with extra arguments"
msg_calling_user_main ==
  <<"c","a","l","l","i","n","g"," ","_","_","u","s","e","r","_","m","a","i",
  "n"," ","w","i","t","h"," ","e","x","t","r","a"," ","a","r","g","u","m",
  "e","n","t","s">>

\* "Large alloc"
msg_large_alloc ==
  <<"L","a","r","g","e"," ","a","l","l","o","c">>

\* "execve"
msg_execve ==
  <<"e","x","e","c","v","e">>

\* "executable has module level assembly"
msg_module_level_assembly ==
  <<"e","x","e","c","u","t","a","b","l","e"," ","h","a","s"," ","m","o","d",
  "u","l","e"," ","l","e","v","e","l"," ","a","s","s","e","m","b","l","y">>

\* "unable to load symbol"
msg_unable_to_load_symbol ==
  <<"u","n","a","b","l","e"," ","t","o"," ","l","o","a","d"," ","s","y","m",
  "b","o","l">>

\* "failed external call"
msg_failed_external_call ==
  <<"f","a","i","l","e","d"," ","e","x","t","e","r","n","a","l"," ","c","a",
  "l","l">>

\* "undefined-function-reference"
id_undefined_function_reference ==
  <<"u","n","d","e","f","i","n","e","d","-","f","u","n","c","t","i","o","n",
  "-","r","e","f","e","r","e","n","c","e">>

\* "undefined-variable-reference"
id_undefined_variable_reference ==
  <<"u","n","d","e","f","i","n","e","d","-","v","a","r","i","a","b","l","e",
  "-","r","e","f","e","r","e","n","c","e">>

\* "calling-external"
id_calling_external ==
  <<"c","a","l","l","i","n","g","-","e","x","t","e","r","n","a","l">>

\* "calling-user-main"
id_calling_user_main ==
  <<"c","a","l","l","i","n","g","-","u","s","e","r","-","m","a","i","n">>

\* "large-alloc"
id_large_alloc ==
  <<"l","a","r","g","e","-","a","l","l","o","c">>

\* "execve"
id_execve ==
  <<"e","x","e","c","v","e">>

\* "module-level-assembly"
id_module_level_assembly ==
  <<"m","o","d","u","l","e","-","l","e","v","e","l","-","a","s","s","e","m",
  "b","l","y">>

\* "symbol-loading"
id_symbol_loading ==
  <<"s","y","m","b","o","l","-","l","o","a","d","i","n","g">>

\* "external-call"
id_external_call ==
  <<"e","x","t","e","r","n","a","l","-","c","a","l","l">>

\* "has inline asm"
sub_has_inline_asm ==
  <<"h","a","s"," ","i","n","l","i","n","e"," ","a","s","m">>

\* "silently ignoring"
sub_silently_ignoring ==
  <<"s","i","l","e","n","t","l","y"," ","i","g","n","o","r","i","n","g">>

\* "when main() has less than two arguments"
sub_main_two_arguments ==
  <<"w","h","e","n"," ","m","a","i","n","(",")"," ","h","a","s"," ","l","e",
  "s","s"," ","t","h","a","n"," ","t","w","o"," ","a","r","g","u","m","e",
  "n","t","s">>

\* "inline-asm"
id_inline_asm ==
  <<"i","n","l","i","n","e","-","a","s","m">>

\* "silently-ignoring"
id_silently_ignoring ==
  <<"s","i","l","e","n","t","l","y","-","i","g","n","o","r","i","n","g">>

\* "posix-runtime"
id_posix_runtime ==
  <<"p","o","s","i","x","-","r","u","n","t","i","m","e">>

\* "other"
id_other ==
  <<"o","t","h","e","r">>

\* "WARNING: "
frag_warning ==
  <<"W","A","R","N","I","N","G",":"," ">>

\* ": ev_default_loop(0)"
frag_args ==
  <<":"," ","e","v","_","d","e","f","a","u","l","t","_","l","o","o","p","(",
  "0",")">>

\* "(X)"
frag_symbol ==
  <<"(","X",")">>

\* "this matches nothing"
frag_nothing ==
  <<"t","h","i","s"," ","m","a","t","c","h","e","s"," ","n","o","t","h","i",
  "n","g">>

\* "calling externa"
frag_calling_externa ==
  <<"c","a","l","l","i","n","g"," ","e","x","t","e","r","n","a">>

\* "l"
frag_l ==
  <<"l">>

\* "\n"
sep_newline ==
  <<"\n">>

\* "<point column=""
xml_point_column ==
  <<"<","p","o","i","n","t"," ","c","o","l","u","m","n","=","\"">>

\* "" line=""
xml_point_line ==
  <<"\""," ","l","i","n","e","=","\"">>

\* ""/>"
xml_attr_end ==
  <<"\"","/",">">>

\* "<range>"
xml_range_open ==
  <<"<","r","a","n","g","e",">">>

\* "</range>"
xml_range_close ==
  <<"<","/","r","a","n","g","e",">">>

\* "<file given-path=""
xml_file_given_path ==
  <<"<","f","i","l","e"," ","g","i","v","e","n","-","p","a","t","h","=",
  "\"">>

\* "<function name=""
xml_function_name ==
  <<"<","f","u","n","c","t","i","o","n"," ","n","a","m","e","=","\"">>

\* "<location>"
xml_location_open ==
  <<"<","l","o","c","a","t","i","o","n",">">>

\* "</location>"
xml_location_close ==
  <<"<","/","l","o","c","a","t","i","o","n",">">>

\* "<state>"
xml_state_open ==
  <<"<","s","t","a","t","e",">">>

\* "</state>"
xml_state_close ==
  <<"<","/","s","t","a","t","e",">">>

\* "<trace>"
xml_trace_open ==
  <<"<","t","r","a","c","e",">">>

\* "</trace>"
xml_trace_close ==
  <<"<","/","t","r","a","c","e",">">>

\* "<message>"
xml_message_open ==
  <<"<","m","e","s","s","a","g","e",">">>

\* "</message>"
xml_message_close ==
  <<"<","/","m","e","s","s","a","g","e",">">>

\* "<notes>"
xml_notes_open ==
  <<"<","n","o","t","e","s",">">>

\* "</notes>"
xml_notes_close ==
  <<"<","/","n","o","t","e","s",">">>

\* "<issue>"
xml_issue_open ==
  <<"<","i","s","s","u","e",">">>

\* "</issue>"
xml_issue_close ==
  <<"<","/","i","s","s","u","e",">">>

\* "<failure failure-id=""
xml_failure_id ==
  <<"<","f","a","i","l","u","r","e"," ","f","a","i","l","u","r","e","-","i",
  "d","=","\"">>

\* "</failure>"
xml_failure_close ==
  <<"<","/","f","a","i","l","u","r","e",">">>

\* "<info info-id=""
xml_info_id ==
  <<"<","i","n","f","o"," ","i","n","f","o","-","i","d","=","\"">>

\* "</info>"
xml_info_close ==
  <<"<","/","i","n","f","o",">">>

\* "">"
xml_tag_end ==
  <<"\"",">">>

\* "<results>"
xml_results_open ==
  <<"<","r","e","s","u","l","t","s",">">>

\* "</results>"
xml_results_close ==
  <<"<","/","r","e","s","u","l","t","s",">">>

\* "<generator name=""
xml_generator_name ==
  <<"<","g","e","n","e","r","a","t","o","r"," ","n","a","m","e","=","\"">>

\* "" version=""
xml_generator_version ==
  <<"\""," ","v","e","r","s","i","o","n","=","\"">>

\* "<metadata>"
xml_metadata_open ==
  <<"<","m","e","t","a","d","a","t","a",">">>

\* "</metadata>"
xml_metadata_close ==
  <<"<","/","m","e","t","a","d","a","t","a",">">>

\* "<analysis>"
xml_analysis_open ==
  <<"<","a","n","a","l","y","s","i","s",">">>

\* "</analysis>"
xml_analysis_close ==
  <<"<","/","a","n","a","l","y","s","i","s",">">>

\* "t.c"
txt_tc ==
  <<"t",".","c">>

\* "f"
txt_f ==
  <<"f">>

\* "t"
txt_t ==
  <<"t">>

\* "1.0"
txt_1_0 ==
  <<"1",".","0">>

\* "f\n\nf"
txt_two_paragraphs ==
  <<"f","\n","\n","f">>

\* " "
sep_space ==
  <<" ">>

\* "KLEE: "
str_klee ==
  <<"K","L","E","E",":"," ">>

\* ": "
str_colon ==
  <<":"," ">>

\* "calling external: foo(1)"
str_foo ==
  <<"c","a","l","l","i","n","g"," ","e","x","t","e","r","n","a","l",":"," ",
  "f","o","o","(","1",")">>

\* "calling external: bar(2)"
str_bar ==
  <<"c","a","l","l","i","n","g"," ","e","x","t","e","r","n","a","l",":"," ",
  "b","a","r","(","2",")">>

\* "this matches nothing"
str_nothing ==
  <<"t","h","i","s"," ","m","a","t","c","h","e","s"," ","n","o","t","h","i",
  "n","g">>

\* "failed external call: %s"
str_failed ==
  <<"f","a","i","l","e","d"," ","e","x","t","e","r","n","a","l"," ","c","a",
  "l","l",":"," ","%","s">>

\* "ajStrNew"
arg_ajStrNew ==
  <<"a","j","S","t","r","N","e","w">>

\* "fopen"
arg_fopen ==
  <<"f","o","p","e","n">>

-----------------------------------------------------------------------------
(* C string functions.                                                     *)

\* the terminating character of a C string
NUL == "\\0"

\* the character at 1-based position i of the C string s, NUL at its end
CharAt(s, i) == IF i <= Len(s) THEN s[i] ELSE NUL

RECURSIVE strncmp_from(_, _, _, _)
strncmp_from(s1, s2, n, i) ==
  IF i > n THEN 0
  ELSE IF CharAt(s1, i) # CharAt(s2, i) THEN 1
  ELSE IF CharAt(s1, i) = NUL THEN 0
  ELSE strncmp_from(s1, s2, n, i + 1)

\* strncmp(s1, s2, n): 0 when the first n characters agree (or both strings
\* end before), otherwise a nonzero value (its sign is not modelled)
strncmp(s1, s2, n) == strncmp_from(s1, s2, n, 1)

\* strlen
strlen(s) == Len(s)

\* strcmp(s1, s2): 0 when equal, otherwise nonzero
strcmp(s1, s2) == strncmp(s1, s2, Len(s1) + Len(s2) + 1)

RECURSIVE strstr_from(_, _, _)
strstr_from(haystack, needle, i) ==
  IF i + Len(needle) - 1 > Len(haystack) THEN 0
  ELSE IF strncmp(SubSeq(haystack, i, Len(haystack)), needle, Len(needle)) = 0
       THEN i
  ELSE strstr_from(haystack, needle, i + 1)

\* strstr(haystack, needle): the 1-based position of the first occurrence,
\* 0 for the NULL result
strstr(haystack, needle) == strstr_from(haystack, needle, 1)

-----------------------------------------------------------------------------
(* determineFirehoseFailureInfoId                                          *)

\* the table with "calling externa" as its first row, a prefix of row 3
message_overlapping ==
  << frag_calling_externa, msg_undefined_variable, msg_calling_external,
     msg_calling_user_main, msg_large_alloc, msg_execve,
     msg_module_level_assembly,
     msg_unable_to_load_symbol, msg_failed_external_call >>

\* static const char *message[]
message ==
  << msg_undefined_function, msg_undefined_variable, msg_calling_external,
     msg_calling_user_main, msg_large_alloc, msg_execve,
     msg_module_level_assembly,
     msg_unable_to_load_symbol, msg_failed_external_call >>

\* static const char *id[]
id ==
  << id_undefined_function_reference, id_undefined_variable_reference,
     id_calling_external, id_calling_user_main, id_large_alloc, id_execve,
     id_module_level_assembly,
     id_symbol_loading, id_external_call >>

\* NELEMS(message)
NELEMS == Len(message)

\* the if/else chain without its "when main() ..." branch
substringPass_noPosix(msg) ==
  IF strstr(msg, sub_has_inline_asm) # 0 THEN id_inline_asm
  ELSE IF strstr(msg, sub_silently_ignoring) # 0 THEN id_silently_ignoring
  ELSE id_other

\* the if/else chain testing "when main() ..." before "silently ignoring"
substringPass_posixFirst(msg) ==
  IF strstr(msg, sub_has_inline_asm) # 0 THEN id_inline_asm
  ELSE IF strstr(msg, sub_main_two_arguments) # 0 THEN id_posix_runtime
  ELSE IF strstr(msg, sub_silently_ignoring) # 0 THEN id_silently_ignoring
  ELSE id_other

\* the if/else chain after the loop
substringPass(msg) ==
  IF strstr(msg, sub_has_inline_asm) # 0 THEN id_inline_asm
  ELSE IF strstr(msg, sub_silently_ignoring) # 0 THEN id_silently_ignoring
  ELSE IF strstr(msg, sub_main_two_arguments) # 0 THEN id_posix_runtime
  ELSE id_other

RECURSIVE prefixPass_anywhere(_, _)
\* the for loop with strstr in place of strncmp: a row matches anywhere
prefixPass_anywhere(msg, i) ==
  IF i > NELEMS THEN substringPass(msg)
  ELSE IF strstr(msg, message[i]) # 0 THEN id[i]
  ELSE prefixPass_anywhere(msg, i + 1)

RECURSIVE prefixPass(_, _)
\* the for loop over the table, from row i on
prefixPass(msg, i) ==
  IF i > NELEMS THEN substringPass(msg)
  ELSE IF strncmp(msg, message[i], strlen(message[i])) = 0 THEN id[i]
  ELSE prefixPass(msg, i + 1)

\* the classifier with the substring tests before the table loop
determineFirehoseFailureInfoId_substringsFirst(msg) ==
  IF substringPass(msg) # id_other THEN substringPass(msg)
  ELSE prefixPass(msg, 1)

determineFirehoseFailureInfoId(msg) == prefixPass(msg, 1)

-----------------------------------------------------------------------------
(* The classifier on its own: one call on a message of the bounded set.    *)

\* the number of fragments a message of the classifier's input set has
MaxFrags == 2

Fragments ==
  { message[i] : i \in 1..NELEMS } \cup
  { sub_has_inline_asm, sub_silently_ignoring, sub_main_two_arguments,
    frag_warning, frag_args, frag_symbol, frag_nothing,
    frag_calling_externa, frag_l }

RECURSIVE Concats(_)
\* the concatenations of at most n fragments
Concats(n) ==
  IF n = 0 THEN { <<>> }
  ELSE LET shorter == Concats(n - 1)
       IN  shorter \cup { m \o f : m \in shorter, f \in Fragments }

Messages == Concats(MaxFrags)

\* elementId before the call has returned
NoId == <<>>

-----------------------------------------------------------------------------
(* Firehose.cpp: helpers.                                                  *)

\* the decimal digit d as a character
Digit(d) == <<"0","1","2","3","4","5","6","7","8","9">>[d + 1]

RECURSIVE numberToString(_)
\* numberToString: operator<< of an unsigned number into a string stream
numberToString(Number) ==
  IF Number < 10 THEN << Digit(Number) >>
  ELSE numberToString(Number \div 10) \o << Digit(Number % 10) >>

\* the first loop of XML::mkString: the non-empty elements of ss, in order
filtered(ss) == SelectSeq(ss, LAMBDA s : s # <<>>)

RECURSIVE mkString_loop(_, _, _)
\* the second loop of XML::mkString: filtered[i] << sep for i in 0..size-2
mkString_loop(f, sep, i) ==
  IF i >= Len(f) THEN <<>>
  ELSE f[i] \o sep \o mkString_loop(f, sep, i + 1)

\* XML::mkString is called with an empty `filtered' vector: the unsigned
\* bound filtered.size() - 1 wraps and filtered[0] is read out of bounds
mkString_undefined(ss) == Len(filtered(ss)) = 0

\* XML::mkString without the first loop, which drops the empty strings
mkString_unfiltered(ss, sep) ==
  mkString_loop(ss, sep, 1) \o (IF Len(ss) > 0 THEN ss[Len(ss)] ELSE <<>>)

\* XML::mkString that puts no separator between the strings
mkString_concatenated(ss, sep) ==
  LET f == filtered(ss)
  IN  mkString_loop(f, <<>>, 1) \o (IF Len(f) > 0 THEN f[Len(f)] ELSE <<>>)

\* XML::mkString for a vector with at least one non-empty element
mkString(ss, sep) ==
  LET f == filtered(ss)
  IN  mkString_loop(f, sep, 1) \o (IF Len(f) > 0 THEN f[Len(f)] ELSE <<>>)

-----------------------------------------------------------------------------
(* The value types: constructors, operator== and toXML.                    *)

Point(column, line) == [column |-> column, line |-> line]

dummyPoint == Point(0, 0)

Point_eq(this, that) ==
  this.column = that.column /\ this.line = that.line

\* Point::toXML without the test against dummyPoint
Point_toXML_always(this) ==
  xml_point_column \o numberToString(this.column) \o
  xml_point_line \o numberToString(this.line) \o xml_attr_end

Point_toXML(this) ==
  IF ~Point_eq(this, dummyPoint)
  THEN xml_point_column \o numberToString(this.column) \o
       xml_point_line \o numberToString(this.line) \o xml_attr_end
  ELSE <<>>

Range(p1, p2) == [p1 |-> p1, p2 |-> p2]

dummyRange == Range(dummyPoint, dummyPoint)

Range_eq(this, that) ==
  Point_eq(this.p1, that.p1) /\ Point_eq(this.p2, that.p2)

\* Range::toXML that takes a Range for absent when either endpoint is
Range_toXML_eitherAbsent(this) ==
  IF ~(Point_eq(this.p1, dummyPoint) \/ Point_eq(this.p2, dummyPoint))
  THEN mkString(<< xml_range_open, Point_toXML(this.p1),
                   Point_toXML(this.p2), xml_range_close >>, sep_newline)
  ELSE <<>>

Range_toXML(this) ==
  IF ~Range_eq(this, dummyRange)
  THEN mkString(<< xml_range_open, Point_toXML(this.p1),
                   Point_toXML(this.p2), xml_range_close >>, sep_newline)
  ELSE <<>>

File(path) == [path |-> path]

dummyFile == File(<<>>)

File_eq(this, that) == this.path = that.path

File_toXML(this) ==
  IF ~File_eq(this, dummyFile)
  THEN xml_file_given_path \o this.path \o xml_attr_end
  ELSE <<>>

Function(name) == [name |-> name]

dummyFunction == Function(<<>>)

Function_eq(this, that) == this.name = that.name

Function_toXML(this) ==
  IF ~Function_eq(this, dummyFunction)
  THEN xml_function_name \o this.name \o xml_attr_end
  ELSE <<>>

\* Location(file, function, range)
LocationOfRange(file, function, range) ==
  [file |-> file, function |-> function, range |-> range,
   point |-> dummyPoint]

\* Location(file, function, point) that also stores the point as a range
LocationOfPoint_withRange(file, function, point) ==
  [file |-> file, function |-> function, range |-> Range(point, point),
   point |-> point]

\* Location(file, function, point)
LocationOfPoint(file, function, point) ==
  [file |-> file, function |-> function, range |-> dummyRange,
   point |-> point]

dummyLocation == LocationOfRange(dummyFile, dummyFunction, dummyRange)

\* Location::operator== without the comparison of the points
Location_eq_noPoint(this, that) ==
  /\ File_eq(this.file, that.file)
  /\ Function_eq(this.function, that.function)
  /\ Range_eq(this.range, that.range)

Location_eq(this, that) ==
  /\ File_eq(this.file, that.file)
  /\ Function_eq(this.function, that.function)
  /\ Range_eq(this.range, that.range)
  /\ Point_eq(this.point, that.point)

Location_toXML(this) ==
  IF ~Location_eq(this, dummyLocation)
  THEN mkString(<< xml_location_open, File_toXML(this.file),
                   Function_toXML(this.function), Range_toXML(this.range),
                   Point_toXML(this.point), xml_location_close >>,
                sep_newline)
  ELSE <<>>

Message(msg) == [text |-> msg]

dummyMessage == Message(<<>>)

Message_eq(this, that) == this.text = that.text

\* Message::toXML without the test against dummyMessage
Message_toXML_always(this) ==
  xml_message_open \o this.text \o xml_message_close

Message_toXML(this) ==
  IF ~Message_eq(this, dummyMessage)
  THEN xml_message_open \o this.text \o xml_message_close
  ELSE <<>>

Notes(notes) == [text |-> notes]

dummyNotes == Notes(<<>>)

Notes_eq(this, that) == this.text = that.text

Notes_toXML(this) ==
  IF ~Notes_eq(this, dummyNotes)
  THEN xml_notes_open \o this.text \o xml_notes_close
  ELSE <<>>

State(location, notes) == [location |-> location, notes |-> notes]

dummyState == State(dummyLocation, dummyNotes)

\* the comparison of the notes member in State::operator==
State_eq_notes(this, that) == Notes_eq(this.notes, that.notes)

State_eq(this, that) ==
  Location_eq(this.location, that.location) /\ State_eq_notes(this, that)

\* the notes child pushed by State::toXML
State_toXML_notes(this) == Notes_toXML(this.notes)

State_toXML(this) ==
  IF ~State_eq(this, dummyState)
  THEN mkString(<< xml_state_open, Location_toXML(this.location),
                   State_toXML_notes(this), xml_state_close >>, sep_newline)
  ELSE <<>>

Trace(states) == [states |-> states]

dummyTrace == Trace(<< dummyState >>)

\* std::vector<State>::operator==: equal sizes and equal elements
Trace_eq(this, that) ==
  /\ Len(this.states) = Len(that.states)
  /\ \A i \in 1..Len(this.states) : State_eq(this.states[i], that.states[i])

Trace_toXML(this) ==
  IF ~Trace_eq(this, dummyTrace)
  THEN mkString(<< xml_trace_open >> \o
                [i \in 1..Len(this.states) |-> State_toXML(this.states[i])]
                \o << xml_trace_close >>, sep_newline)
  ELSE <<>>

Issue(message_, location, trace) ==
  [message |-> message_, location |-> location, trace |-> trace]

dummyIssue == Issue(dummyMessage, dummyLocation, dummyTrace)

Issue_eq(this, that) ==
  /\ Message_eq(this.message, that.message)
  /\ Location_eq(this.location, that.location)
  /\ Trace_eq(this.trace, that.trace)

\* Issue::toXML that pushes the location before the message
Issue_toXML_locationFirst(this) ==
  IF ~Issue_eq(this, dummyIssue)
  THEN mkString(<< xml_issue_open, Location_toXML(this.location),
                   Message_toXML(this.message), Trace_toXML(this.trace),
                   xml_issue_close >>, sep_newline)
  ELSE <<>>

Issue_toXML(this) ==
  IF ~Issue_eq(this, dummyIssue)
  THEN mkString(<< xml_issue_open, Message_toXML(this.message),
                   Location_toXML(this.location), Trace_toXML(this.trace),
                   xml_issue_close >>, sep_newline)
  ELSE <<>>

\* FailureOrInfo(id, message, location)
FailureOrInfo(id_, message_, location) ==
  [id |-> id_, message |-> message_, location |-> location]

Failure(id_, message_, location) == FailureOrInfo(id_, message_, location)

dummyFailure == Failure(<<>>, dummyMessage, dummyLocation)

Failure_eq(this, that) ==
  /\ this.id = that.id
  /\ Message_eq(this.message, that.message)
  /\ Location_eq(this.location, that.location)

Failure_toXML(this) ==
  IF ~Failure_eq(this, dummyFailure)
  THEN mkString(<< xml_failure_id \o this.id \o xml_tag_end,
                   Location_toXML(this.location),
                   Message_toXML(this.message), xml_failure_close >>,
                sep_newline)
  ELSE <<>>

Info(id_, message_) == FailureOrInfo(id_, message_, dummyLocation)

dummyInfo == Info(<<>>, dummyMessage)

Info_eq(this, that) ==
  this.id = that.id /\ Message_eq(this.message, that.message)

Info_toXML(this) ==
  IF ~Info_eq(this, dummyInfo)
  THEN mkString(<< xml_info_id \o this.id \o xml_tag_end,
                   Message_toXML(this.message), xml_info_close >>,
                sep_newline)
  ELSE <<>>

Results(issues) == [issues |-> issues]

dummyResults == Results(<< dummyIssue >>)

\* std::vector<Issue>::operator==: equal sizes and equal elements
Results_eq(this, that) ==
  /\ Len(this.issues) = Len(that.issues)
  /\ \A i \in 1..Len(this.issues) : Issue_eq(this.issues[i], that.issues[i])

\* Results::toXML that walks the vector from its last element to its first
Results_toXML_reversed(this) ==
  IF ~Results_eq(this, dummyResults)
  THEN mkString(<< xml_results_open >> \o
                [i \in 1..Len(this.issues) |->
                   Issue_toXML(this.issues[Len(this.issues) + 1 - i])]
                \o << xml_results_close >>, sep_newline)
  ELSE <<>>

Results_toXML(this) ==
  IF ~Results_eq(this, dummyResults)
  THEN mkString(<< xml_results_open >> \o
                [i \in 1..Len(this.issues) |-> Issue_toXML(this.issues[i])]
                \o << xml_results_close >>, sep_newline)
  ELSE <<>>

Generator(name, version) == [name |-> name, version |-> version]

dummyGenerator == Generator(<<>>, <<>>)

Generator_eq(this, that) ==
  this.name = that.name /\ this.version = that.version

Generator_toXML(this) ==
  IF ~Generator_eq(this, dummyGenerator)
  THEN xml_generator_name \o this.name \o xml_generator_version \o
       this.version \o xml_attr_end
  ELSE <<>>

Metadata(generator) == [generator |-> generator]

dummyMetadata == Metadata(dummyGenerator)

Metadata_eq(this, that) == Generator_eq(this.generator, that.generator)

Metadata_toXML(this) ==
  IF ~Metadata_eq(this, dummyMetadata)
  THEN mkString(<< xml_metadata_open, Generator_toXML(this.generator),
                   xml_metadata_close >>, sep_newline)
  ELSE <<>>

Analysis(metadata, results) == [metadata |-> metadata, results |-> results]

dummyAnalysis == Analysis(dummyMetadata, dummyResults)

\* Analysis::operator== without the comparison of the results
Analysis_eq_metadataOnly(this, that) ==
  Metadata_eq(this.metadata, that.metadata)

Analysis_eq(this, that) ==
  /\ Metadata_eq(this.metadata, that.metadata)
  /\ Results_eq(this.results, that.results)

\* Analysis::toXML that pushes the results before the metadata
Analysis_toXML_resultsFirst(this) ==
  IF ~Analysis_eq(this, dummyAnalysis)
  THEN mkString(<< xml_analysis_open, Results_toXML(this.results),
                   Metadata_toXML(this.metadata), xml_analysis_close >>,
                sep_newline)
  ELSE <<>>

Analysis_toXML(this) ==
  IF ~Analysis_eq(this, dummyAnalysis)
  THEN mkString(<< xml_analysis_open, Metadata_toXML(this.metadata),
                   Results_toXML(this.results), xml_analysis_close >>,
                sep_newline)
  ELSE <<>>

-----------------------------------------------------------------------------
(* The copy constructors: each initialises its fields from the getters of  *)
(* `that'.                                                                 *)

Point_copy(that) == [column |-> that.column, line |-> that.line]

Range_copy(that) == [p1 |-> that.p1, p2 |-> that.p2]

File_copy(that) == [path |-> that.path]

Function_copy(that) == [name |-> that.name]

Location_copy(that) ==
  [file |-> that.file, function |-> that.function, range |-> that.range,
   point |-> that.point]

Message_copy(that) == [text |-> that.text]

Notes_copy(that) == [text |-> that.text]

State_copy(that) == [location |-> that.location, notes |-> that.notes]

Trace_copy(that) == [states |-> that.states]

Issue_copy(that) ==
  [message |-> that.message, location |-> that.location,
   trace |-> that.trace]

Failure_copy(that) ==
  [id |-> that.id, message |-> that.message, location |-> that.location]

Info_copy(that) ==
  [id |-> that.id, message |-> that.message, location |-> dummyLocation]

Results_copy(that) == [issues |-> that.issues]

Generator_copy(that) == [name |-> that.name, version |-> that.version]

Metadata_copy(that) == [generator |-> that.generator]

Analysis_copy(that) == [metadata |-> that.metadata, results |-> that.results]

-----------------------------------------------------------------------------
(* The serializer on its own: a value is constructed and toXML is called   *)
(* on it.                                                                  *)

\* the largest column and line number of the points constructed
MaxCoord == 1

\* the longest State vector of the traces constructed
MaxStates == 2

\* the longest Issue vector of the results constructed
MaxIssues == 2

Texts == { <<>>, txt_tc, txt_f }

Points == { Point(c, l) : c \in 0..MaxCoord, l \in 0..MaxCoord }

Ranges == { Range(p1, p2) : p1 \in Points, p2 \in Points }

Files == { File(t) : t \in Texts }

Functions == { Function(t) : t \in Texts }

Locations ==
  { LocationOfRange(f, fn, r) : f \in Files, fn \in Functions, r \in Ranges }
  \cup
  { LocationOfPoint(f, fn, p) : f \in Files, fn \in Functions, p \in Points }

LocationSamples ==
  { dummyLocation,
    LocationOfRange(File(txt_tc), dummyFunction, dummyRange),
    LocationOfPoint(File(txt_tc), Function(txt_f), Point(1, 1)),
    LocationOfRange(dummyFile, dummyFunction, Range(Point(0, 1), dummyPoint)) }

\* the messages include one whose text holds a blank line
MessageValues == { Message(t) : t \in Texts \cup { txt_two_paragraphs } }

NotesValues == { Notes(t) : t \in Texts }

States == { State(l, n) : l \in LocationSamples, n \in NotesValues }

StateSamples ==
  { dummyState,
    State(LocationOfPoint(File(txt_tc), Function(txt_f), Point(1, 1)),
          dummyNotes),
    State(dummyLocation, Notes(txt_f)) }

RECURSIVE SeqsUpTo(_, _)
\* the sequences of at most n elements of S
SeqsUpTo(S, n) ==
  IF n = 0 THEN { <<>> }
  ELSE LET shorter == SeqsUpTo(S, n - 1)
       IN  shorter \cup { Append(s, e) : s \in shorter, e \in S }

Traces == { Trace(v) : v \in SeqsUpTo(StateSamples, MaxStates) }

TraceSamples ==
  { dummyTrace, Trace(<<>>),
    Trace(<< State(dummyLocation, Notes(txt_f)) >>) }

Issues ==
  { Issue(m, l, t) : m \in MessageValues, l \in LocationSamples,
                     t \in TraceSamples }

IssueSamples ==
  { dummyIssue,
    Issue(Message(txt_f), dummyLocation, dummyTrace),
    Issue(Message(txt_tc),
          LocationOfPoint(File(txt_tc), Function(txt_f), Point(1, 1)),
          Trace(<<>>)) }

TaxonomyIds == { <<>>, id_symbol_loading, id_external_call, id_other }

Failures ==
  { Failure(i, m, l) : i \in TaxonomyIds, m \in MessageValues,
                       l \in LocationSamples }

Infos == { Info(i, m) : i \in TaxonomyIds, m \in MessageValues }

ResultsValues == { Results(v) : v \in SeqsUpTo(IssueSamples, MaxIssues) }

ResultsSamples ==
  { dummyResults, Results(<<>>),
    Results(<< Issue(Message(txt_f), dummyLocation, dummyTrace) >>) }

Generators == { Generator(n, v) : n \in Texts, v \in Texts }

MetadataValues == { Metadata(g) : g \in Generators }

MetadataSamples ==
  { dummyMetadata, Metadata(Generator(txt_f, txt_tc)),
    Metadata(Generator(txt_t, txt_1_0)) }

Analyses ==
  { Analysis(m, r) : m \in MetadataSamples, r \in ResultsSamples }

\* node before anything has been constructed
NoNode == [type |-> "none", value |-> <<>>]

\* the value `value' of class `type' is constructed and serialized to `text'
Serialized(type, value, text) ==
  /\ node' = [type |-> type, value |-> value]
  /\ xml' = text
  /\ UNCHANGED <<classifierVars, routerVars, threadVars>>

PointToXML == \E v \in Points : Serialized("Point", v, Point_toXML(v))

RangeToXML == \E v \in Ranges : Serialized("Range", v, Range_toXML(v))

FileToXML == \E v \in Files : Serialized("File", v, File_toXML(v))

FunctionToXML ==
  \E v \in Functions : Serialized("Function", v, Function_toXML(v))

LocationToXML ==
  \E v \in Locations : Serialized("Location", v, Location_toXML(v))

MessageToXML ==
  \E v \in MessageValues : Serialized("Message", v, Message_toXML(v))

NotesToXML == \E v \in NotesValues : Serialized("Notes", v, Notes_toXML(v))

StateToXML == \E v \in States : Serialized("State", v, State_toXML(v))

TraceToXML == \E v \in Traces : Serialized("Trace", v, Trace_toXML(v))

IssueToXML == \E v \in Issues : Serialized("Issue", v, Issue_toXML(v))

FailureToXML ==
  \E v \in Failures : Serialized("Failure", v, Failure_toXML(v))

InfoToXML == \E v \in Infos : Serialized("Info", v, Info_toXML(v))

ResultsToXML ==
  \E v \in ResultsValues : Serialized("Results", v, Results_toXML(v))

GeneratorToXML ==
  \E v \in Generators : Serialized("Generator", v, Generator_toXML(v))

MetadataToXML ==
  \E v \in MetadataValues : Serialized("Metadata", v, Metadata_toXML(v))

AnalysisToXML ==
  \E v \in Analyses : Serialized("Analysis", v, Analysis_toXML(v))

-----------------------------------------------------------------------------
(* The message router.                                                     *)

\* the largest number of entry-point calls in a run
MaxCalls == 3

\* a NULL `const char *' (no character sequence equals it)
NULL == << "NULL" >>

\* the address of the literal "calling external" in klee_warning_once
CallingExternalLiteral == 0

\* the addresses of the strings the callers pass as msg
MsgAddrs == 1..5

\* the string stored at an address; addresses 3 and 4 hold equal text
StrAt(p) ==
  CASE p = CallingExternalLiteral -> msg_calling_external
    [] p = 1 -> str_foo
    [] p = 2 -> str_bar
    [] p = 3 -> str_nothing
    [] p = 4 -> str_nothing
    [] p = 5 -> str_failed

\* the values the callers pass for a %s conversion
ArgValues == { arg_ajStrNew, arg_fopen }

\* the origin identities (const void *id) of the callers
Origins == { 101, 102 }

RECURSIVE CountConversions(_, _)
\* the number of %s conversions of a format string, from position i on
CountConversions(fmt, i) ==
  IF i >= Len(fmt) THEN 0
  ELSE IF fmt[i] = "%" /\ fmt[i + 1] = "s"
       THEN 1 + CountConversions(fmt, i + 2)
  ELSE IF fmt[i] = "%" THEN CountConversions(fmt, i + 2)
  ELSE CountConversions(fmt, i + 1)

\* the argument lists a caller passes with the format string at address p
ArgLists(p) ==
  { ap \in SeqsUpTo(ArgValues, 1) : Len(ap) = CountConversions(StrAt(p), 1) }

RECURSIVE vsprintf_from(_, _, _)
\* the output of vsprintf for the format string from position i on
vsprintf_from(fmt, ap, i) ==
  IF i > Len(fmt) THEN <<>>
  ELSE IF fmt[i] = "%" /\ CharAt(fmt, i + 1) = "s"
       THEN Head(ap) \o vsprintf_from(fmt, Tail(ap), i + 2)
  ELSE IF fmt[i] = "%" /\ CharAt(fmt, i + 1) = "%"
       THEN << "%" >> \o vsprintf_from(fmt, ap, i + 2)
  ELSE << fmt[i] >> \o vsprintf_from(fmt, ap, i + 1)

\* vsprintf(buf, msg, ap) / vfprintf(fp, msg, ap): %s and %% conversions
vsprintf(fmt, ap) == vsprintf_from(fmt, ap, 1)

\* what klee_vfmessage prints: "KLEE: ", the prefix, the message, "\n"
klee_vfmessage_line(pfx, msg, ap) ==
  str_klee \o (IF pfx # NULL THEN pfx \o str_colon ELSE <<>>) \o
  vsprintf(StrAt(msg), ap) \o sep_newline

\* klee_vfmessage(fp, pfx, msg, ap) on the stream whose content is `content'
klee_vfmessage(fp, content, pfx, msg, ap) ==
  IF fp = "NULL" THEN content
  ELSE Append(content, klee_vfmessage_line(pfx, msg, ap))

\* fprintf(klee_firehose_file, "%s\n", x.toXML()) for the Info or Failure x
ElementLine(type, value, text) ==
  [type |-> type, value |-> value, text |-> text \o sep_newline]

\* fprintf(klee_firehose_file, tag "\n") for a closing tag
TagLine(tag) == [type |-> "tag", value |-> tag, text |-> tag \o sep_newline]

\* the Firehose block of klee_vmessage with an Info that is given the
\* Location of the file "t.c"
klee_vmessage_firehose_located(pfx, msg, ap) ==
  IF pfx # NULL /\ klee_firehose_file # "NULL"
  THEN LET buf == vsprintf(StrAt(msg), ap)
           id_ == determineFirehoseFailureInfoId(buf)
           info == FailureOrInfo(id_, Message(buf),
                                 LocationOfRange(File(txt_tc), dummyFunction,
                                                 dummyRange))
       IN  IF \/ strncmp(pfx, warningPrefix, strlen(warningPrefix)) = 0
              \/ strcmp(pfx, notePrefix) = 0
           THEN Append(firehose_xml,
                       ElementLine("Info", info, Failure_toXML(info)))
           ELSE IF strcmp(pfx, errorPrefix) = 0
           THEN Append(firehose_xml,
                       ElementLine("Failure",
                                   Failure(id_, Message(buf), dummyLocation),
                                   Failure_toXML(Failure(id_, Message(buf),
                                                         dummyLocation))))
           ELSE firehose_xml
  ELSE firehose_xml

\* the Firehose block of klee_vmessage without the test of
\* klee_firehose_file
klee_vmessage_firehose_unguarded(pfx, msg, ap) ==
  IF pfx # NULL
  THEN LET buf == vsprintf(StrAt(msg), ap)
           id_ == determineFirehoseFailureInfoId(buf)
       IN  IF \/ strncmp(pfx, warningPrefix, strlen(warningPrefix)) = 0
              \/ strcmp(pfx, notePrefix) = 0
           THEN Append(firehose_xml,
                       ElementLine("Info", Info(id_, Message(buf)),
                                   Info_toXML(Info(id_, Message(buf)))))
           ELSE IF strcmp(pfx, errorPrefix) = 0
           THEN Append(firehose_xml,
                       ElementLine("Failure",
                                   Failure(id_, Message(buf), dummyLocation),
                                   Failure_toXML(Failure(id_, Message(buf),
                                                         dummyLocation))))
           ELSE firehose_xml
  ELSE firehose_xml

\* the Firehose block of klee_vmessage choosing Failure for the two failure
\* ids of the classifier and Info for the others, whatever the prefix
klee_vmessage_firehose_byId(pfx, msg, ap) ==
  IF pfx # NULL /\ klee_firehose_file # "NULL"
  THEN LET buf == vsprintf(StrAt(msg), ap)
           id_ == determineFirehoseFailureInfoId(buf)
       IN  IF id_ \notin { id_symbol_loading, id_external_call }
           THEN Append(firehose_xml,
                       ElementLine("Info", Info(id_, Message(buf)),
                                   Info_toXML(Info(id_, Message(buf)))))
           ELSE Append(firehose_xml,
                       ElementLine("Failure",
                                   Failure(id_, Message(buf), dummyLocation),
                                   Failure_toXML(Failure(id_, Message(buf),
                                                         dummyLocation))))
  ELSE firehose_xml

\* the Firehose block of klee_vmessage
klee_vmessage_firehose(pfx, msg, ap) ==
  IF pfx # NULL /\ klee_firehose_file # "NULL"
  THEN LET buf == vsprintf(StrAt(msg), ap)
           id_ == determineFirehoseFailureInfoId(buf)
       IN  IF \/ strncmp(pfx, warningPrefix, strlen(warningPrefix)) = 0
              \/ strcmp(pfx, notePrefix) = 0
           THEN Append(firehose_xml,
                       ElementLine("Info", Info(id_, Message(buf)),
                                   Info_toXML(Info(id_, Message(buf)))))
           ELSE IF strcmp(pfx, errorPrefix) = 0
           THEN Append(firehose_xml,
                       ElementLine("Failure",
                                   Failure(id_, Message(buf), dummyLocation),
                                   Failure_toXML(Failure(id_, Message(buf),
                                                         dummyLocation))))
           ELSE firehose_xml
  ELSE firehose_xml

\* klee_vmessage up to its Firehose block: stderr and the two text files
klee_vmessage_streams(pfx, onlyToFile, msg, ap) ==
  /\ stderr_out' =
       IF ~onlyToFile THEN klee_vfmessage("open", stderr_out, pfx, msg, ap)
       ELSE stderr_out
  /\ warnings_txt' =
       IF pfx # NULL
       THEN klee_vfmessage(klee_warning_file, warnings_txt, pfx, msg, ap)
       ELSE warnings_txt
  /\ messages_txt' =
       IF pfx # NULL THEN messages_txt
       ELSE klee_vfmessage(klee_message_file, messages_txt, pfx, msg, ap)

\* klee_vmessage(pfx, onlyToFile, msg, ap)
klee_vmessage(pfx, onlyToFile, msg, ap) ==
  /\ klee_vmessage_streams(pfx, onlyToFile, msg, ap)
  /\ firehose_xml' = klee_vmessage_firehose(pfx, msg, ap)

\* the entry of the call history (origin is 0 for the entry points that
\* take no id)
Call(fn, origin, msg, ap, emitted) ==
  [fn |-> fn, origin |-> origin, msg |-> msg, ap |-> ap,
   emitted |-> emitted]

\* the process is running and may make another call
Running == ~exited /\ Len(calls) < MaxCalls

klee_message ==
  \E msg \in {3} : \E ap \in ArgLists(msg) :
    /\ Running
    /\ klee_vmessage(NULL, FALSE, msg, ap)
    /\ calls' = Append(calls, Call("klee_message", 0, msg, ap, TRUE))
    /\ UNCHANGED <<klee_firehose_file, klee_warning_file, klee_message_file,
                   keys, exited, classifierVars, serializerVars,
                   threadVars>>

klee_message_to_file ==
  \E msg \in {3} : \E ap \in ArgLists(msg) :
    /\ Running
    /\ klee_vmessage(NULL, TRUE, msg, ap)
    /\ calls' = Append(calls,
                       Call("klee_message_to_file", 0, msg, ap, TRUE))
    /\ UNCHANGED <<klee_firehose_file, klee_warning_file, klee_message_file,
                   keys, exited, classifierVars, serializerVars,
                   threadVars>>

\* close_firehose_file() run before klee_vmessage instead of after it
close_firehose_file_early(content) ==
  IF klee_firehose_file # "NULL" /\ content # <<>>
  THEN SubSeq(content, 1, Len(content) - 1)
         \o << TagLine(xml_results_close), TagLine(xml_analysis_close),
               content[Len(content)] >>
  ELSE content

\* close_firehose_file() without the test of klee_firehose_file
close_firehose_file_unguarded(content) ==
  content \o << TagLine(xml_results_close), TagLine(xml_analysis_close) >>

\* close_firehose_file() when the file holds the lines `content'
close_firehose_file(content) ==
  IF klee_firehose_file # "NULL"
  THEN content \o << TagLine(xml_results_close), TagLine(xml_analysis_close) >>
  ELSE content

klee_error ==
  \E msg \in {3, 5} : \E ap \in ArgLists(msg) :
    /\ Running
    /\ klee_vmessage_streams(errorPrefix, FALSE, msg, ap)
    /\ firehose_xml' =
         close_firehose_file(klee_vmessage_firehose(errorPrefix, msg, ap))
    /\ klee_firehose_file' =
         IF klee_firehose_file # "NULL" THEN "closed" ELSE klee_firehose_file
    /\ exited' = TRUE
    /\ calls' = Append(calls, Call("klee_error", 0, msg, ap, TRUE))
    /\ UNCHANGED <<klee_warning_file, klee_message_file, keys,
                   classifierVars, serializerVars,
                   threadVars>>

klee_warning ==
  \E msg \in {3, 5} : \E ap \in ArgLists(msg) :
    /\ Running
    /\ klee_vmessage(warningPrefix, FALSE, msg, ap)
    /\ calls' = Append(calls, Call("klee_warning", 0, msg, ap, TRUE))
    /\ UNCHANGED <<klee_firehose_file, klee_warning_file, klee_message_file,
                   keys, exited, classifierVars, serializerVars,
                   threadVars>>

\* the key without the special case for "calling external"
WarningOnceKey_raw(origin, msg) == << origin, msg >>

\* the key without the caller's id
WarningOnceKey_noOrigin(origin, msg) ==
  IF strncmp(StrAt(msg), msg_calling_external,
             strlen(msg_calling_external)) # 0
  THEN << 0, msg >>
  ELSE << 0, CallingExternalLiteral >>

\* the key klee_warning_once computes: the pair (id, msg) of two pointers
WarningOnceKey(origin, msg) ==
  IF strncmp(StrAt(msg), msg_calling_external,
             strlen(msg_calling_external)) # 0
  THEN << origin, msg >>
  ELSE << origin, CallingExternalLiteral >>

\* klee_warning_once with the key taken after the argument substitution
klee_warning_once_formatted ==
  \E origin \in Origins : \E msg \in MsgAddrs : \E ap \in ArgLists(msg) :
    LET key == << origin, msg, ap >>
    IN  /\ Running
        /\ IF key \notin keys
           THEN /\ keys' = keys \cup { key }
                /\ klee_vmessage(warningOncePrefix, FALSE, msg, ap)
           ELSE UNCHANGED <<keys, stderr_out, warnings_txt, messages_txt,
                            firehose_xml>>
        /\ calls' = Append(calls, Call("klee_warning_once", origin, msg, ap,
                                       key \notin keys))
        /\ UNCHANGED <<klee_firehose_file, klee_warning_file,
                       klee_message_file, exited, classifierVars,
                       serializerVars, threadVars>>

klee_warning_once ==
  \E origin \in Origins : \E msg \in MsgAddrs : \E ap \in ArgLists(msg) :
    LET key == WarningOnceKey(origin, msg)
    IN  /\ Running
        /\ IF key \notin keys
           THEN /\ keys' = keys \cup { key }
                /\ klee_vmessage(warningOncePrefix, FALSE, msg, ap)
           ELSE UNCHANGED <<keys, stderr_out, warnings_txt, messages_txt,
                            firehose_xml>>
        /\ calls' = Append(calls, Call("klee_warning_once", origin, msg, ap,
                                       key \notin keys))
        /\ UNCHANGED <<klee_firehose_file, klee_warning_file,
                       klee_message_file, exited, classifierVars,
                       serializerVars, threadVars>>

-----------------------------------------------------------------------------
(* klee_warning_once called from several threads, statement by statement.  *)
(* The code takes no lock; the callers either hold one external lock for   *)
(* the whole call (serialized) or call without any synchronisation.        *)

\* the number of threads that call klee_warning_once
MaxThreads == 2

Threads == 1..MaxThreads

\* the frame of a thread that has not called yet
NoFrame ==
  [origin |-> 0, msg |-> 0, ap |-> <<>>, key |-> << 0, 0 >>,
   inserted |-> FALSE, emitted |-> FALSE]

\* no thread has called klee_warning_once
ThreadsIdle ==
  /\ pc = [t \in Threads |-> "idle"]
  /\ frame = [t \in Threads |-> NoFrame]
  /\ mutex = 0
  /\ serialized = TRUE

\* thread t accesses the static set `keys' without a lock while another
\* thread uses it too: a data race, the outcome of the access is undefined
Racing(t) == ~serialized /\ \E u \in Threads \ {t} : pc[u] # "idle"

\* thread t enters klee_warning_once(id, msg, ...) and computes its key
once_enter(t) ==
  \E origin \in Origins : \E msg \in {1, 2} : \E ap \in ArgLists(msg) :
    /\ pc[t] = "idle"
    /\ serialized => mutex = 0
    /\ mutex' = IF serialized THEN t ELSE mutex
    /\ frame' = [frame EXCEPT ![t] =
                   [origin |-> origin, msg |-> msg, ap |-> ap,
                    key |-> WarningOnceKey(origin, msg),
                    inserted |-> FALSE, emitted |-> FALSE]]
    /\ pc' = [pc EXCEPT ![t] = "count"]
    /\ UNCHANGED <<routerVars, classifierVars, serializerVars, serialized>>

\* if (!keys.count(key))
once_count(t) ==
  /\ pc[t] = "count"
  /\ \E found \in (IF Racing(t) THEN BOOLEAN ELSE { frame[t].key \in keys }) :
       pc' = [pc EXCEPT ![t] = IF found THEN "return" ELSE "insert"]
  /\ UNCHANGED <<routerVars, classifierVars, serializerVars, frame, mutex,
                 serialized>>

\* the body of the if without keys.insert(key)
once_insert_skipped(t) ==
  /\ pc[t] = "insert"
  /\ frame' = [frame EXCEPT ![t].inserted = TRUE]
  /\ pc' = [pc EXCEPT ![t] = "vmessage"]
  /\ UNCHANGED <<routerVars, classifierVars, serializerVars, mutex,
                 serialized>>

\* keys.insert(key)
once_insert(t) ==
  /\ pc[t] = "insert"
  /\ \E after \in (IF Racing(t)
                   THEN { keys, keys \cup { frame[t].key } }
                   ELSE { keys \cup { frame[t].key } }) :
       keys' = after
  /\ frame' = [frame EXCEPT ![t].inserted = TRUE]
  /\ pc' = [pc EXCEPT ![t] = "vmessage"]
  /\ UNCHANGED <<klee_firehose_file, klee_warning_file, klee_message_file,
                 firehose_xml, warnings_txt, messages_txt, stderr_out,
                 exited, calls, classifierVars, serializerVars, mutex,
                 serialized>>

\* klee_vmessage(warningOncePrefix, false, msg, ap)
once_vmessage(t) ==
  /\ pc[t] = "vmessage"
  /\ klee_vmessage(warningOncePrefix, FALSE, frame[t].msg, frame[t].ap)
  /\ frame' = [frame EXCEPT ![t].emitted = TRUE]
  /\ pc' = [pc EXCEPT ![t] = "return"]
  /\ UNCHANGED <<klee_firehose_file, klee_warning_file, klee_message_file,
                 keys, exited, calls, classifierVars, serializerVars, mutex,
                 serialized>>

\* klee_warning_once returns to its caller, which releases the lock
once_return(t) ==
  /\ pc[t] = "return"
  /\ mutex' = IF serialized THEN 0 ELSE mutex
  /\ pc' = [pc EXCEPT ![t] = "done"]
  /\ UNCHANGED <<routerVars, classifierVars, serializerVars, frame,
                 serialized>>

-----------------------------------------------------------------------------
(* The specifications.                                                     *)

\* the classifier has not been called
ClassifierIdle == whole_msg = <<>> /\ elementId = NoId

\* nothing has been serialized
SerializerIdle == node = NoNode /\ xml = <<>>

\* no stream is open and no entry point has been called
RouterIdle ==
  /\ klee_firehose_file = "NULL"
  /\ klee_warning_file = "NULL"
  /\ klee_message_file = "NULL"
  /\ firehose_xml = <<>>
  /\ warnings_txt = <<>>
  /\ messages_txt = <<>>
  /\ stderr_out = <<>>
  /\ keys = {}
  /\ exited = FALSE
  /\ calls = <<>>

\* the process at start: Firehose output is enabled or not, and the two
\* text files are both open or both still NULL
Init ==
  /\ klee_firehose_file \in {"NULL", "open"}
  /\ klee_warning_file \in {"NULL", "open"}
  /\ klee_message_file = klee_warning_file
  /\ firehose_xml = <<>>
  /\ warnings_txt = <<>>
  /\ messages_txt = <<>>
  /\ stderr_out = <<>>
  /\ keys = {}
  /\ exited = FALSE
  /\ calls = <<>>
  /\ ClassifierIdle
  /\ SerializerIdle
  /\ ThreadsIdle

Next ==
  \/ klee_message
  \/ klee_message_to_file
  \/ klee_warning
  \/ klee_warning_once
  \/ klee_error

Spec == Init /\ [][Next]_vars

\* a message of the bounded set is about to be classified
InitClassifier ==
  /\ whole_msg \in Messages
  /\ elementId = NoId
  /\ RouterIdle
  /\ SerializerIdle
  /\ ThreadsIdle

\* determineFirehoseFailureInfoId(whole_msg) is called and returns
Classify ==
  /\ elementId' = determineFirehoseFailureInfoId(whole_msg)
  /\ UNCHANGED <<whole_msg, routerVars, serializerVars, threadVars>>

NextClassifier == Classify

SpecClassifier == InitClassifier /\ [][NextClassifier]_vars

InitSerializer ==
  /\ SerializerIdle
  /\ ClassifierIdle
  /\ RouterIdle
  /\ ThreadsIdle

NextSerializer ==
  \/ PointToXML
  \/ RangeToXML
  \/ FileToXML
  \/ FunctionToXML
  \/ LocationToXML
  \/ MessageToXML
  \/ NotesToXML
  \/ StateToXML
  \/ TraceToXML
  \/ IssueToXML
  \/ FailureToXML
  \/ InfoToXML
  \/ ResultsToXML
  \/ GeneratorToXML
  \/ MetadataToXML
  \/ AnalysisToXML

SpecSerializer == InitSerializer /\ [][NextSerializer]_vars

\* the process with all three files open before any thread has called, the
\* callers taking the external lock or not
InitThreads ==
  /\ klee_firehose_file = "open"
  /\ klee_warning_file = "open"
  /\ klee_message_file = "open"
  /\ firehose_xml = <<>>
  /\ warnings_txt = <<>>
  /\ messages_txt = <<>>
  /\ stderr_out = <<>>
  /\ keys = {}
  /\ exited = FALSE
  /\ calls = <<>>
  /\ ClassifierIdle
  /\ SerializerIdle
  /\ pc = [t \in Threads |-> "idle"]
  /\ frame = [t \in Threads |-> NoFrame]
  /\ mutex = 0
  /\ serialized \in BOOLEAN

NextThreads ==
  \/ \E t \in Threads : once_enter(t)
  \/ \E t \in Threads : once_count(t)
  \/ \E t \in Threads : once_insert(t)
  \/ \E t \in Threads : once_vmessage(t)
  \/ \E t \in Threads : once_return(t)

SpecThreads == InitThreads /\ [][NextThreads]_vars

\* the longest vector handed to XML::mkString
MaxStrings == 3

\* the vectors of strings handed to XML::mkString, "" among the strings
StringVectors == SeqsUpTo({ <<>>, txt_f, txt_t, txt_tc }, MaxStrings)

\* what a call of XML::mkString on a vector without a non-empty string can
\* do: filtered.size() - 1 wraps to the largest size_t, the loop is entered
\* and reads filtered[0] of an empty vector; the call crashes, or it
\* returns what it had written, nothing or a separator after garbage
UndefinedOutcomes(sep) ==
  { [returned |-> FALSE, text |-> <<>>], [returned |-> TRUE, text |-> <<>>],
    [returned |-> TRUE, text |-> sep] }

\* a subclass of XML calls mkString(ss, sep)
mkStringCall ==
  \E ss \in StringVectors : \E sep \in { sep_newline, sep_space } :
    \E outcome \in (IF mkString_undefined(ss) THEN UndefinedOutcomes(sep)
                    ELSE { [returned |-> TRUE, text |-> mkString(ss, sep)] }) :
      /\ node' = [type |-> "mkString",
                  value |-> [ss |-> ss, sep |-> sep,
                             returned |-> outcome.returned]]
      /\ xml' = outcome.text
      /\ UNCHANGED <<classifierVars, routerVars, threadVars>>

InitMkString == InitSerializer

NextMkString == mkStringCall

SpecMkString == InitMkString /\ [][NextMkString]_vars

-----------------------------------------------------------------------------
(* Vocabulary of the properties, stated without the C string functions.    *)

\* p is a prefix of s
IsPrefixOf(p, s) == Len(p) <= Len(s) /\ SubSeq(s, 1, Len(p)) = p

\* sub occurs in s at some position
Occurs(sub, s) ==
  \E i \in 1..(Len(s) - Len(sub) + 1) : SubSeq(s, i, i + Len(sub) - 1) = sub

\* the classifier has returned
Called == elementId # NoId

\* the rows of the prefix table whose prefix starts m
MatchingRows(m) == { i \in 1..NELEMS : IsPrefixOf(message[i], m) }

\* some substring of the secondary pass occurs in m
SomeSubstringOccurs(m) ==
  \/ Occurs(sub_has_inline_asm, m)
  \/ Occurs(sub_silently_ignoring, m)
  \/ Occurs(sub_main_two_arguments, m)

\* m matches no rule of the classifier
MatchesNoRule(m) == MatchingRows(m) = {} /\ ~SomeSubstringOccurs(m)

\* the thirteen identifiers the classifier can return
AllIds ==
  { id[i] : i \in 1..NELEMS } \cup
  { id_inline_asm, id_silently_ignoring, id_posix_runtime, id_other }

-----------------------------------------------------------------------------
(* Properties of the serializer (SpecSerializer).                          *)

\* the absent (dummy) value of each class
DummyOf(type) ==
  CASE type = "Point" -> dummyPoint
    [] type = "Range" -> dummyRange
    [] type = "File" -> dummyFile
    [] type = "Function" -> dummyFunction
    [] type = "Location" -> dummyLocation
    [] type = "Message" -> dummyMessage
    [] type = "Notes" -> dummyNotes
    [] type = "State" -> dummyState
    [] type = "Trace" -> dummyTrace
    [] type = "Issue" -> dummyIssue
    [] type = "Failure" -> dummyFailure
    [] type = "Info" -> dummyInfo
    [] type = "Results" -> dummyResults
    [] type = "Generator" -> dummyGenerator
    [] type = "Metadata" -> dummyMetadata
    [] type = "Analysis" -> dummyAnalysis

\* the classes C1 names
C1_Types ==
  { "Point", "Range", "File", "Function", "Location", "Message", "Notes",
    "State", "Trace", "Issue", "Failure", "Results", "Generator",
    "Metadata", "Analysis" }

\* C1: for every value type, toXML of the type's absent (dummy) value is
\* the empty string.
C1_DummyToXMLIsEmpty ==
  \A type \in C1_Types :
    (node.type = type /\ node.value = DummyOf(type)) => xml = <<>>

\* C1 witness: toXML has been called on the dummy Analysis.
C1_Witness ==
  node.type = "Analysis" /\ node.value = dummyAnalysis /\ xml = <<>>

-----------------------------------------------------------------------------
(* Properties of the classifier (SpecClassifier).                          *)

\* "calling external: ev_default_loop(0)"
C2_example_calling == msg_calling_external \o frag_args

\* "unable to load symbol(X)"
C2_example_symbol == msg_unable_to_load_symbol \o frag_symbol

\* C2: the id returned is that of the first table row whose prefix starts
\* the message; a row whose prefix occurs only later in the message does
\* not give its id; the two example messages classify to
\* "calling-external" and "symbol-loading".
C2_FirstMatchingPrefixWins ==
  Called =>
    /\ \A i \in MatchingRows(whole_msg) :
         (\A j \in MatchingRows(whole_msg) : i <= j) => elementId = id[i]
    /\ \A i \in 1..NELEMS :
         (Occurs(message[i], whole_msg) /\ i \notin MatchingRows(whole_msg))
           => elementId # id[i]
    /\ whole_msg = C2_example_calling => elementId = id_calling_external
    /\ whole_msg = C2_example_symbol => elementId = id_symbol_loading

\* C2 witness: "WARNING: undefined reference to function" has been
\* classified; the registered prefix occurs at position 10 only and the
\* result is "other".
C2_Witness ==
  /\ whole_msg = frag_warning \o msg_undefined_function
  /\ elementId = id_other

\* C3 (state part): the call returns one of the thirteen identifiers, and
\* "other" exactly when the message matches no rule.
C3_TotalExact ==
  Called =>
    /\ elementId \in AllIds
    /\ elementId = id_other <=> MatchesNoRule(whole_msg)

\* C3 (step part): a call changes nothing but its own result, and a repeated
\* call on the same message returns the same id.
C3_Stateless ==
  /\ UNCHANGED <<whole_msg, routerVars, serializerVars, threadVars>>
  /\ Called => elementId' = elementId

\* C3: the classifier is total and stateless: every call returns exactly
\* one of the thirteen ids, "other" exactly when no prefix starts the
\* message and none of the three substrings occurs in it, and a call changes
\* no state, so that a repeated call returns the same id.
C3_TotalAndStateless == []C3_TotalExact /\ [][C3_Stateless]_vars

\* C3 witness: a message matching no rule has been classified as "other".
C3_Witness == whole_msg = frag_nothing \o frag_symbol /\ elementId = id_other

\* C4: a message that begins with "calling external" classifies to
\* "calling-external" whatever follows, also when one of the three
\* substrings of the secondary pass follows.
C4_CallingExternalWins ==
  (Called /\ IsPrefixOf(msg_calling_external, whole_msg))
    => elementId = id_calling_external

\* C4 witness: "calling external" followed by "silently ignoring" has been
\* classified as "calling-external".
C4_Witness ==
  /\ whole_msg = msg_calling_external \o sub_silently_ignoring
  /\ elementId = id_calling_external

\* C5 as stated: every message that contains "silently ignoring" anywhere
\* classifies to "silently-ignoring".
C5_Original ==
  (Called /\ Occurs(sub_silently_ignoring, whole_msg))
    => elementId = id_silently_ignoring

\* C5 as amended: every message that contains "silently ignoring" anywhere,
\* begins with none of the nine registered prefixes and does not contain
\* "has inline asm" classifies to "silently-ignoring".
C5_SilentlyIgnoring ==
  ( /\ Called
    /\ Occurs(sub_silently_ignoring, whole_msg)
    /\ MatchingRows(whole_msg) = {}
    /\ ~Occurs(sub_has_inline_asm, whole_msg) )
    => elementId = id_silently_ignoring

\* C5 witness: a message with "silently ignoring" before "when main() has
\* less than two arguments" has been classified as "silently-ignoring".
C5_Witness ==
  /\ whole_msg = sub_silently_ignoring \o sub_main_two_arguments
  /\ elementId = id_silently_ignoring

-----------------------------------------------------------------------------
(* Properties of the message router (Spec).                                *)

\* the positions of the call history
CallIndices == 1..Len(calls)

\* call j is a klee_warning_once call
IsOnce(j) == calls[j].fn = "klee_warning_once"

\* the text of the msg argument of call j
RawText(j) == StrAt(calls[j].msg)

\* the message after argument substitution of call j
FormattedText(j) == vsprintf(StrAt(calls[j].msg), calls[j].ap)

\* the normalized message of the warn-once key
NormalizedMessage(text) ==
  IF IsPrefixOf(msg_calling_external, text) THEN msg_calling_external
  ELSE text

\* calls i and j present the same (origin, normalized message) key
SameKey(i, j) ==
  /\ calls[i].origin = calls[j].origin
  /\ NormalizedMessage(RawText(i)) = NormalizedMessage(RawText(j))

\* C6 as stated: a klee_warning_once call is emitted exactly when no earlier
\* klee_warning_once call presented the same origin and the same normalized
\* message text.
C6_OncePerKey ==
  \A j \in CallIndices :
    IsOnce(j) =>
      (calls[j].emitted <=>
         ~\E i \in 1..(j - 1) : IsOnce(i) /\ SameKey(i, j))

\* C7: for one origin, once a warn-once call whose message begins with
\* "calling external" has been emitted, every later warn-once call of that
\* origin whose message begins with "calling external" is suppressed.
C7_CallingExternalOnce ==
  \A i \in CallIndices : \A j \in CallIndices :
    ( /\ i < j
      /\ IsOnce(i) /\ IsOnce(j)
      /\ calls[i].origin = calls[j].origin
      /\ IsPrefixOf(msg_calling_external, RawText(i))
      /\ IsPrefixOf(msg_calling_external, RawText(j))
      /\ calls[i].emitted )
      => ~calls[j].emitted

\* C7 witness: "calling external: foo(1)" was emitted and a later
\* "calling external: bar(2)" of the same origin was suppressed.
C7_Witness ==
  \E i \in CallIndices : \E j \in CallIndices :
    /\ i < j
    /\ IsOnce(i) /\ IsOnce(j)
    /\ calls[i].origin = calls[j].origin
    /\ RawText(i) = str_foo /\ RawText(j) = str_bar
    /\ calls[i].emitted /\ ~calls[j].emitted

\* C8: suppression never crosses origins: a suppressed warn-once call has an
\* earlier emitted warn-once call of its own origin, and the first call of
\* an origin with a message is emitted whatever the other origins did.
C8_NoCrossOriginSuppression ==
  \A j \in CallIndices :
    IsOnce(j) =>
      /\ ~calls[j].emitted =>
           \E i \in 1..(j - 1) :
             /\ IsOnce(i) /\ calls[i].emitted
             /\ calls[i].origin = calls[j].origin
      /\ (~\E i \in 1..(j - 1) : IsOnce(i) /\ SameKey(i, j))
           => calls[j].emitted

\* C8 witness: two origins presented the same message, with another call in
\* between, and both calls were emitted.
C8_Witness ==
  \E i \in CallIndices : \E j \in CallIndices :
    /\ i + 1 < j
    /\ IsOnce(i) /\ IsOnce(j)
    /\ calls[i].origin # calls[j].origin
    /\ calls[i].msg = calls[j].msg
    /\ calls[i].emitted /\ calls[j].emitted

\* C9 as stated: every Failure written to the report file carries one of
\* the two sanctioned ids "symbol-loading" and "external-call".
C9_SanctionedFailureIds ==
  \A k \in 1..Len(firehose_xml) :
    firehose_xml[k].type = "Failure" =>
      firehose_xml[k].value.id \in { id_symbol_loading, id_external_call }

\* the calls that reached klee_vmessage with a severity prefix
RoutedCalls ==
  SelectSeq(calls,
            LAMBDA c : \/ c.fn \in {"klee_warning", "klee_error"}
                       \/ c.fn = "klee_warning_once" /\ c.emitted)

\* the Info and Failure elements of the report file
ReportElements == SelectSeq(firehose_xml, LAMBDA l : l.type # "tag")

\* C10 as stated: with the report enabled, every routed diagnostic whose
\* message matches no classifier rule is written as an Info element with id
\* "other": it is not dropped and it is not written as a Failure.
C10_OtherIsInfo ==
  klee_firehose_file # "NULL" =>
    /\ Len(ReportElements) = Len(RoutedCalls)
    /\ \A k \in 1..Len(RoutedCalls) :
         LET text == vsprintf(StrAt(RoutedCalls[k].msg), RoutedCalls[k].ap)
         IN  (k <= Len(ReportElements) /\ MatchesNoRule(text)) =>
               /\ ReportElements[k].type = "Info"
               /\ ReportElements[k].value = Info(id_other, Message(text))

\* the positions of the report file that hold the closing tag `tag'
TagPositions(tag) ==
  { k \in 1..Len(firehose_xml) : firehose_xml[k] = TagLine(tag) }

\* C11: finalizing the report writes "</results>" and then "</analysis>",
\* at most once in a run and exactly once when klee_error finalizes an open
\* report, only after some markup has been written, and the file is closed
\* only with both tags written.
C11_FinalizeOnce ==
  /\ Cardinality(TagPositions(xml_results_close)) <= 1
  /\ Cardinality(TagPositions(xml_analysis_close)) <= 1
  /\ \A k \in TagPositions(xml_results_close) :
       /\ k > 1
       /\ firehose_xml[k - 1].type # "tag"
       /\ k + 1 = Len(firehose_xml)
       /\ k + 1 \in TagPositions(xml_analysis_close)
  /\ TagPositions(xml_analysis_close) # {}
       => TagPositions(xml_results_close) # {}
  /\ klee_firehose_file = "closed" <=> TagPositions(xml_results_close) # {}
  /\ (exited /\ klee_firehose_file # "NULL")
       => TagPositions(xml_results_close) # {}

\* C11 witness: klee_error has finalized a report that already held an
\* element of an earlier diagnostic.
C11_Witness ==
  /\ klee_firehose_file = "closed"
  /\ Len(firehose_xml) = 4
  /\ firehose_xml[1].type = "Info"
  /\ firehose_xml[2].type = "Failure"
  /\ firehose_xml[3] = TagLine(xml_results_close)
  /\ firehose_xml[4] = TagLine(xml_analysis_close)

RECURSIVE IssueLinesFrom(_, _)
\* the markup of the non-absent issues of `issues' from position i on, each
\* followed by a newline, in the order of the vector (resultsToXML of
\* FirehoseTest.cpp)
IssueLinesFrom(issues, i) ==
  IF i > Len(issues) THEN <<>>
  ELSE (IF Issue_eq(issues[i], dummyIssue) THEN <<>>
        ELSE Issue_toXML(issues[i]) \o sep_newline)
       \o IssueLinesFrom(issues, i + 1)

\* C12: Results::toXML of a non-absent Results is "<results>", then the
\* markup of each non-absent Issue exactly once and in the order of the
\* vector given at construction, then "</results>".
C12_ResultsInOrder ==
  (node.type = "Results" /\ ~Results_eq(node.value, dummyResults))
    => xml = xml_results_open \o sep_newline
             \o IssueLinesFrom(node.value.issues, 1) \o xml_results_close

\* C12 witness: a Results of two different non-absent Issues was serialized.
C12_Witness ==
  /\ node.type = "Results"
  /\ Len(node.value.issues) = 2
  /\ ~Issue_eq(node.value.issues[1], dummyIssue)
  /\ ~Issue_eq(node.value.issues[2], dummyIssue)
  /\ ~Issue_eq(node.value.issues[1], node.value.issues[2])
  /\ xml # <<>>

\* the document of Analysis(Metadata(Generator("t", "1.0")), Results({}))
xml_analysis_example ==
  <<"<","a","n","a","l","y","s","i","s",">","\n","<","m","e","t","a","d",
  "a","t","a",">","\n","<","g","e","n","e","r","a","t","o","r"," ","n","a",
  "m","e","=","\"","t","\""," ","v","e","r","s","i","o","n","=","\"","1",
  ".","0","\"","/",">","\n","<","/","m","e","t","a","d","a","t","a",">",
  "\n","<","r","e","s","u","l","t","s",">","\n","<","/","r","e","s","u","l",
  "t","s",">","\n","<","/","a","n","a","l","y","s","i","s",">">>

\* C13: Analysis::toXML of a non-absent Analysis is "<analysis>", the
\* metadata block if the Metadata is not absent, then the results block if
\* the Results is not absent, then "</analysis>"; for Generator("t", "1.0")
\* and an empty Issue vector it is the generator element with name "t" and
\* version "1.0" followed by "<results>\n</results>".
C13_AnalysisBlocks ==
  (node.type = "Analysis" /\ ~Analysis_eq(node.value, dummyAnalysis))
    => /\ xml = xml_analysis_open \o sep_newline
                \o (IF Metadata_eq(node.value.metadata, dummyMetadata)
                    THEN <<>>
                    ELSE Metadata_toXML(node.value.metadata) \o sep_newline)
                \o (IF Results_eq(node.value.results, dummyResults)
                    THEN <<>>
                    ELSE Results_toXML(node.value.results) \o sep_newline)
                \o xml_analysis_close
       /\ node.value = Analysis(Metadata(Generator(txt_t, txt_1_0)),
                                Results(<<>>))
            => xml = xml_analysis_example

\* C13 witness: the Analysis of Generator("t", "1.0") and no Issue was
\* serialized.
C13_Witness ==
  /\ node.type = "Analysis"
  /\ node.value = Analysis(Metadata(Generator(txt_t, txt_1_0)), Results(<<>>))
  /\ xml = xml_analysis_example

\* the string s holds two newlines in a row
HasBlankLine(s) ==
  \E i \in 1..(Len(s) - 1) : s[i] = sep_newline[1] /\ s[i + 1] = sep_newline[1]

LocationTexts(l) == { l.file.path, l.function.name }

StateTexts(s) == LocationTexts(s.location) \cup { s.notes.text }

TraceTexts(t) == UNION { StateTexts(t.states[i]) : i \in 1..Len(t.states) }

IssueTexts(i) ==
  { i.message.text } \cup LocationTexts(i.location) \cup TraceTexts(i.trace)

\* the strings given to the constructors of the node `value' of class `type'
TextFields(type, value) ==
  CASE type = "Location" -> LocationTexts(value)
    [] type = "State" -> StateTexts(value)
    [] type = "Trace" -> TraceTexts(value)
    [] type = "Issue" -> IssueTexts(value)
    [] type = "Failure" ->
         { value.id, value.message.text } \cup LocationTexts(value.location)
    [] type = "Results" ->
         UNION { IssueTexts(value.issues[i]) : i \in 1..Len(value.issues) }
    [] type = "Metadata" -> { value.generator.name, value.generator.version }
    [] type = "Analysis" ->
         { value.metadata.generator.name, value.metadata.generator.version }
         \cup UNION { IssueTexts(value.results.issues[i]) :
                        i \in 1..Len(value.results.issues) }
    [] OTHER -> {}

CompositeTypes ==
  { "Range", "Location", "State", "Trace", "Issue", "Failure", "Results",
    "Metadata", "Analysis" }

\* C14 as stated: whatever the field values, the markup of a composite node
\* holds no two newlines in a row and neither begins nor ends with one.
C14_Original ==
  (node.type \in CompositeTypes /\ xml # <<>>)
    => /\ ~HasBlankLine(xml)
       /\ xml[1] # sep_newline[1]
       /\ xml[Len(xml)] # sep_newline[1]

\* C14: the markup of a composite node neither begins nor ends with a
\* newline, and it holds two newlines in a row only where one of the strings
\* given to its constructors holds them: omitted children leave no blank
\* line.
C14_NoBlankLineFromOmittedChildren ==
  (node.type \in CompositeTypes /\ xml # <<>>)
    => /\ xml[1] # sep_newline[1]
       /\ xml[Len(xml)] # sep_newline[1]
       /\ HasBlankLine(xml)
            => \E t \in TextFields(node.type, node.value) : HasBlankLine(t)

\* C14 witness: a Location whose function is omitted between its file and
\* its point was serialized.
C14_Witness ==
  /\ node.type = "Location"
  /\ ~File_eq(node.value.file, dummyFile)
  /\ Function_eq(node.value.function, dummyFunction)
  /\ ~Point_eq(node.value.point, dummyPoint)
  /\ xml # <<>>
  /\ ~HasBlankLine(xml)

\* the element `open' ... `close' with nothing between its two tags
EmptyElement(open, close) == open \o sep_newline \o close

\* the empty elements that no toXML writes
NeverEmpty ==
  { EmptyElement(xml_range_open, xml_range_close),
    EmptyElement(xml_location_open, xml_location_close),
    EmptyElement(xml_state_open, xml_state_close),
    EmptyElement(xml_issue_open, xml_issue_close),
    EmptyElement(xml_metadata_open, xml_metadata_close),
    EmptyElement(xml_analysis_open, xml_analysis_close),
    xml_message_open \o xml_message_close,
    xml_notes_open \o xml_notes_close }

\* the empty elements of the vectors and of the childless Failure and Info
SometimesEmpty ==
  { EmptyElement(xml_trace_open, xml_trace_close),
    EmptyElement(xml_results_open, xml_results_close),
    EmptyElement(xml_tag_end, xml_failure_close),
    EmptyElement(xml_tag_end, xml_info_close) }

\* C15 as stated: no toXML of any node writes an opening tag directly
\* followed by its closing tag.
C15_Original ==
  \A e \in NeverEmpty \cup SometimesEmpty : ~Occurs(e, xml)

\* C15: no toXML writes an empty range, location, state, issue, message,
\* notes, metadata or analysis element; a Trace (Results) that is not the
\* absent sentinel writes the empty element "<trace>\n</trace>"
\* ("<results>\n</results>") exactly when its vector is empty or holds only
\* absent entries, and a Failure or Info writes an element without children
\* exactly when it has an id but neither message nor location.
C15_EmptyElements ==
  /\ \A e \in NeverEmpty : ~Occurs(e, xml)
  /\ node.type = "Trace"
       => (Occurs(EmptyElement(xml_trace_open, xml_trace_close), xml)
             <=> /\ ~Trace_eq(node.value, dummyTrace)
                 /\ \A i \in 1..Len(node.value.states) :
                      State_eq(node.value.states[i], dummyState))
  /\ node.type = "Results"
       => (Occurs(EmptyElement(xml_results_open, xml_results_close), xml)
             <=> /\ ~Results_eq(node.value, dummyResults)
                 /\ \A i \in 1..Len(node.value.issues) :
                      Issue_eq(node.value.issues[i], dummyIssue))
  /\ Occurs(EmptyElement(xml_trace_open, xml_trace_close), xml)
       => node.type \in { "Trace", "Issue", "Results", "Analysis" }
  /\ Occurs(EmptyElement(xml_results_open, xml_results_close), xml)
       => node.type \in { "Results", "Analysis" }
  /\ Occurs(EmptyElement(xml_tag_end, xml_failure_close), xml)
       <=> /\ node.type = "Failure"
           /\ node.value.id # <<>>
           /\ Message_eq(node.value.message, dummyMessage)
           /\ Location_eq(node.value.location, dummyLocation)
  /\ Occurs(EmptyElement(xml_tag_end, xml_info_close), xml)
       <=> /\ node.type = "Info"
           /\ node.value.id # <<>>
           /\ Message_eq(node.value.message, dummyMessage)

\* C15 witness: the Trace of an empty State vector was serialized to an
\* empty trace element.
C15_Witness ==
  /\ node.type = "Trace"
  /\ node.value = Trace(<<>>)
  /\ xml = EmptyElement(xml_trace_open, xml_trace_close)

\* operator== of the class `type'
EqOf(type, x, y) ==
  CASE type = "Point" -> Point_eq(x, y)
    [] type = "Range" -> Range_eq(x, y)
    [] type = "File" -> File_eq(x, y)
    [] type = "Function" -> Function_eq(x, y)
    [] type = "Location" -> Location_eq(x, y)
    [] type = "Message" -> Message_eq(x, y)
    [] type = "Notes" -> Notes_eq(x, y)
    [] type = "State" -> State_eq(x, y)
    [] type = "Trace" -> Trace_eq(x, y)
    [] type = "Issue" -> Issue_eq(x, y)
    [] type = "Failure" -> Failure_eq(x, y)
    [] type = "Info" -> Info_eq(x, y)
    [] type = "Results" -> Results_eq(x, y)
    [] type = "Generator" -> Generator_eq(x, y)
    [] type = "Metadata" -> Metadata_eq(x, y)
    [] type = "Analysis" -> Analysis_eq(x, y)

\* toXML of the class `type'
ToXMLOf(type, x) ==
  CASE type = "Point" -> Point_toXML(x)
    [] type = "Range" -> Range_toXML(x)
    [] type = "File" -> File_toXML(x)
    [] type = "Function" -> Function_toXML(x)
    [] type = "Location" -> Location_toXML(x)
    [] type = "Message" -> Message_toXML(x)
    [] type = "Notes" -> Notes_toXML(x)
    [] type = "State" -> State_toXML(x)
    [] type = "Trace" -> Trace_toXML(x)
    [] type = "Issue" -> Issue_toXML(x)
    [] type = "Failure" -> Failure_toXML(x)
    [] type = "Info" -> Info_toXML(x)
    [] type = "Results" -> Results_toXML(x)
    [] type = "Generator" -> Generator_toXML(x)
    [] type = "Metadata" -> Metadata_toXML(x)
    [] type = "Analysis" -> Analysis_toXML(x)

\* the values of the class `type' that the serializer constructs
ValuesOf(type) ==
  CASE type = "Point" -> Points
    [] type = "Range" -> Ranges
    [] type = "File" -> Files
    [] type = "Function" -> Functions
    [] type = "Location" -> Locations
    [] type = "Message" -> MessageValues
    [] type = "Notes" -> NotesValues
    [] type = "State" -> States
    [] type = "Trace" -> Traces
    [] type = "Issue" -> Issues
    [] type = "Failure" -> Failures
    [] type = "Info" -> Infos
    [] type = "Results" -> ResultsValues
    [] type = "Generator" -> Generators
    [] type = "Metadata" -> MetadataValues
    [] type = "Analysis" -> Analyses

\* a node has been constructed and serialized
Constructed == node.type # "none"

\* every node of the same class that == the serialized one has the same
\* markup
C16_EqualNodesSameMarkup ==
  Constructed =>
    \A y \in ValuesOf(node.type) :
      EqOf(node.type, node.value, y) => ToXMLOf(node.type, y) = xml

\* a call of toXML changes nothing but the node and its markup, and a call
\* on a node that == the one serialized before returns the same string
C16_NoSideEffect ==
  /\ UNCHANGED <<classifierVars, routerVars, threadVars>>
  /\ (Constructed /\ node'.type = node.type
        /\ EqOf(node.type, node.value, node'.value))
       => xml' = xml

\* C16: serialization is deterministic and free of side effects: two nodes
\* of the same class with x == y have the identical markup, and a call of
\* toXML changes no state besides returning the markup.
C16_DeterministicAndPure ==
  []C16_EqualNodesSameMarkup /\ [][C16_NoSideEffect]_vars

\* C16 witness: an Issue with a location and a trace was serialized and
\* serializing an equal Issue gives the same markup.
C16_Witness ==
  /\ node.type = "Issue"
  /\ ~Location_eq(node.value.location, dummyLocation)
  /\ ~Trace_eq(node.value.trace, dummyTrace)
  /\ xml # <<>>
  /\ \E y \in Issues : Issue_eq(node.value, y) /\ Issue_toXML(y) = xml

\* the Locations held by the node `value' of class `type'
LocationsOf(type, value) ==
  CASE type = "Location" -> { value }
    [] type \in { "State", "Failure", "Info" } -> { value.location }
    [] type = "Trace" ->
         { value.states[i].location : i \in 1..Len(value.states) }
    [] type = "Issue" ->
         { value.location } \cup
         { value.trace.states[i].location :
             i \in 1..Len(value.trace.states) }
    [] OTHER -> {}

\* at most one of the range and the point of the Location l is present
AtMostOneSpan(l) ==
  Range_eq(l.range, dummyRange) \/ Point_eq(l.point, dummyPoint)

\* the line of the child markup `child', nothing for an absent child
ChildLine(child) == IF child = <<>> THEN <<>> ELSE child \o sep_newline

\* the location element with the file, then the function, then the one span
LocationMarkup(l) ==
  xml_location_open \o sep_newline
  \o ChildLine(File_toXML(l.file))
  \o ChildLine(Function_toXML(l.function))
  \o ChildLine(IF ~Range_eq(l.range, dummyRange) THEN Range_toXML(l.range)
               ELSE Point_toXML(l.point))
  \o xml_location_close

\* C17: every constructed Location has at most one of its range and point
\* present: it is what Location(file, function, range) builds, with the
\* absent Point, or what Location(file, function, point) builds, with the
\* absent Range (both absent for the two-argument form); so Location::toXML
\* writes the file, then the function, then at most one range or point
\* element.
C17_AtMostOneSpan ==
  /\ \A l \in LocationsOf(node.type, node.value) :
       /\ AtMostOneSpan(l)
       /\ \/ l = LocationOfRange(l.file, l.function, l.range)
          \/ l = LocationOfPoint(l.file, l.function, l.point)
  /\ (node.type = "Location" /\ ~Location_eq(node.value, dummyLocation))
       => xml = LocationMarkup(node.value)

\* C17 witness: a Location built from a file, a function and a point was
\* serialized with a point element and no range element.
C17_Witness ==
  /\ node.type = "Location"
  /\ node.value = LocationOfPoint(File(txt_tc), Function(txt_f), Point(1, 1))
  /\ Occurs(Point_toXML(Point(1, 1)), xml)
  /\ ~Occurs(xml_range_open, xml)

\* the copy constructor of the class `type'
CopyOf(type, x) ==
  CASE type = "Point" -> Point_copy(x)
    [] type = "Range" -> Range_copy(x)
    [] type = "File" -> File_copy(x)
    [] type = "Function" -> Function_copy(x)
    [] type = "Location" -> Location_copy(x)
    [] type = "Message" -> Message_copy(x)
    [] type = "Notes" -> Notes_copy(x)
    [] type = "State" -> State_copy(x)
    [] type = "Trace" -> Trace_copy(x)
    [] type = "Issue" -> Issue_copy(x)
    [] type = "Failure" -> Failure_copy(x)
    [] type = "Info" -> Info_copy(x)
    [] type = "Results" -> Results_copy(x)
    [] type = "Generator" -> Generator_copy(x)
    [] type = "Metadata" -> Metadata_copy(x)
    [] type = "Analysis" -> Analysis_copy(x)

\* the value that the constructor of the class `type' builds from what the
\* getters of x return
RebuiltOf(type, x) ==
  CASE type = "Point" -> Point(x.column, x.line)
    [] type = "Range" -> Range(x.p1, x.p2)
    [] type = "File" -> File(x.path)
    [] type = "Function" -> Function(x.name)
    [] type = "Location" ->
         IF Point_eq(x.point, dummyPoint)
         THEN LocationOfRange(x.file, x.function, x.range)
         ELSE LocationOfPoint(x.file, x.function, x.point)
    [] type = "Message" -> Message(x.text)
    [] type = "Notes" -> Notes(x.text)
    [] type = "State" -> State(x.location, x.notes)
    [] type = "Trace" -> Trace(x.states)
    [] type = "Issue" -> Issue(x.message, x.location, x.trace)
    [] type = "Failure" -> Failure(x.id, x.message, x.location)
    [] type = "Info" -> Info(x.id, x.message)
    [] type = "Results" -> Results(x.issues)
    [] type = "Generator" -> Generator(x.name, x.version)
    [] type = "Metadata" -> Metadata(x.generator)
    [] type = "Analysis" -> Analysis(x.metadata, x.results)

\* C18: operator== of every value type is structural: a constructed value
\* == another value of its class exactly when all their fields are equal,
\* recursively and element by element in order for the vectors; its copy
\* == it, and the value constructed from what its getters return == it.
C18_StructuralEquality ==
  Constructed =>
    /\ \A y \in ValuesOf(node.type) :
         EqOf(node.type, node.value, y) <=> node.value = y
    /\ EqOf(node.type, CopyOf(node.type, node.value), node.value)
    /\ EqOf(node.type, RebuiltOf(node.type, node.value), node.value)

\* C18 witness: an Analysis was constructed that differs from another one
\* only in its results, the two are unequal, and its copy equals it.
C18_Witness ==
  /\ node.type = "Analysis"
  /\ \E y \in Analyses :
       /\ y.metadata = node.value.metadata
       /\ y.results # node.value.results
       /\ ~Analysis_eq(node.value, y)
  /\ Analysis_eq(Analysis_copy(node.value), node.value)

\* the lines of the report file that hold an Info element
InfoLines == { k \in 1..Len(firehose_xml) : firehose_xml[k].type = "Info" }

\* C19: an Info never carries a Location: the Info that klee_vmessage
\* constructs for a diagnostic holds the absent Location, and the element
\* written to the report is the info tag with the taxonomy id, the message
\* and the closing tag, with no location element.
C19_InfoHasNoLocation ==
  \A k \in InfoLines :
    LET info == firehose_xml[k].value
    IN  /\ Location_eq(info.location, dummyLocation)
        /\ ~Occurs(xml_location_open, firehose_xml[k].text)
        /\ firehose_xml[k].text =
             xml_info_id \o info.id \o xml_tag_end \o sep_newline
             \o ChildLine(Message_toXML(info.message))
             \o xml_info_close \o sep_newline

\* C19 witness: a warning that matches no classifier rule was written to
\* the report as an Info element with the id "other" and its message.
C19_Witness ==
  \E k \in InfoLines :
    /\ firehose_xml[k].value.id = id_other
    /\ firehose_xml[k].value.message = Message(str_nothing)
    /\ Occurs(xml_message_open \o str_nothing \o xml_message_close,
              firehose_xml[k].text)

\* C20: Failure::toXML of a non-absent Failure is the failure tag with the
\* attribute failure-id set to the Failure's id, then the location markup
\* when the location is not the absent Location, then the message markup,
\* then "</failure>", joined by newlines; the absent Failure serializes to
\* the empty string.
C20_FailureMarkup ==
  node.type = "Failure" =>
    IF Failure_eq(node.value, dummyFailure)
    THEN xml = <<>>
    ELSE xml = xml_failure_id \o node.value.id \o xml_tag_end \o sep_newline
               \o ChildLine(Location_toXML(node.value.location))
               \o ChildLine(Message_toXML(node.value.message))
               \o xml_failure_close

\* C20 witness: a Failure with the id "external-call", a message and a
\* location was serialized, the location element before the message.
C20_Witness ==
  /\ node.type = "Failure"
  /\ node.value =
       Failure(id_external_call, Message(txt_f),
               LocationOfPoint(File(txt_tc), Function(txt_f), Point(1, 1)))
  /\ Occurs(xml_location_close \o sep_newline \o xml_message_open, xml)

\* C21: Issue::toXML of a non-absent Issue is the issue element holding the
\* message markup, then the location markup, then the trace markup; the
\* trace is left out exactly when it == the absent Trace (one absent State),
\* so an Issue whose trace is the empty vector still has a trace element.
C21_IssueMarkup ==
  (node.type = "Issue" /\ ~Issue_eq(node.value, dummyIssue))
    => /\ xml = xml_issue_open \o sep_newline
                \o ChildLine(Message_toXML(node.value.message))
                \o ChildLine(Location_toXML(node.value.location))
                \o (IF Trace_eq(node.value.trace, dummyTrace) THEN <<>>
                    ELSE Trace_toXML(node.value.trace) \o sep_newline)
                \o xml_issue_close
       /\ Occurs(xml_trace_open, xml)
            <=> ~Trace_eq(node.value.trace, dummyTrace)

\* C21 witness: an Issue with a message, a location and the empty State
\* vector as its trace was serialized with an empty trace element after the
\* location.
C21_Witness ==
  /\ node.type = "Issue"
  /\ node.value =
       Issue(Message(txt_f),
             LocationOfPoint(File(txt_tc), Function(txt_f), Point(1, 1)),
             Trace(<<>>))
  /\ Occurs(xml_location_close \o sep_newline
            \o EmptyElement(xml_trace_open, xml_trace_close), xml)

\* the entry points that route a diagnostic without a severity prefix
UnprefixedEntries == { "klee_message", "klee_message_to_file" }

\* the step is a call of an entry point: the call history grows by one
IsCallStep == Len(calls') = Len(calls) + 1

\* a call without a severity prefix, and any call while klee_firehose_file is
\* NULL, leaves the content of the report as it was
C25_ReportFrame ==
  (IsCallStep /\ (\/ calls'[Len(calls')].fn \in UnprefixedEntries
                  \/ klee_firehose_file = "NULL"))
    => firehose_xml' = firehose_xml

\* no markup is in the report while klee_firehose_file is NULL, and the
\* report holds no more elements than calls with a severity prefix were made
C25_ReportOnlyWhenOpen ==
  /\ klee_firehose_file = "NULL" => firehose_xml = <<>>
  /\ Len(ReportElements)
       <= Len(SelectSeq(calls, LAMBDA c : c.fn \notin UnprefixedEntries))

\* C25: a diagnostic changes the report file only when it has a severity
\* prefix and the report file is open: klee_message and
\* klee_message_to_file never write to the report, and with
\* klee_firehose_file NULL no call writes markup.
C25_ReportFrameEffect == []C25_ReportOnlyWhenOpen /\ [][C25_ReportFrame]_vars

\* C25 witness: with the report open, a warning wrote an element and a
\* later klee_message left the report with that one element.
C25_Witness ==
  /\ klee_firehose_file = "open"
  /\ Len(calls) = 2
  /\ calls[1].fn = "klee_warning"
  /\ calls[2].fn = "klee_message"
  /\ Len(firehose_xml) = 1
  /\ Len(messages_txt) + Len(stderr_out) > 1

\* the line that klee_vmessage appends to the report when the message at
\* address msg is routed with the prefix pfx
LineFor(pfx, msg, ap) ==
  LET after == klee_vmessage_firehose(pfx, msg, ap)
  IN  after[Len(after)]

RECURSIVE ReversedScan(_, _)
\* the loop over the table with its rows in the reverse order, from row i
\* down, followed by the if/else chain
ReversedScan(msg, i) ==
  IF i < 1 THEN substringPass(msg)
  ELSE IF IsPrefixOf(message[i], msg) THEN id[i]
  ELSE ReversedScan(msg, i - 1)

\* C23 as stated: the table that the classifier scans has a registered
\* prefix that is a prefix or substring of another one, and among the
\* messages it is called on one matches more than one table row and gets
\* another identifier when the rows are permuted.
C23_Original ==
  Called =>
    /\ \E i, j \in 1..NELEMS : i # j /\ Occurs(message[i], message[j])
    /\ \E m \in Messages :
         /\ Cardinality(MatchingRows(m)) > 1
         /\ ReversedScan(m, NELEMS) # determineFirehoseFailureInfoId(m)

\* C23: no registered prefix is a prefix or a substring of another one, so
\* every message starts with at most one of them and the identifier
\* returned does not depend on the order of the table rows: scanning the
\* rows in the reverse order returns the same identifier.
C23_TableOrderIrrelevant ==
  /\ \A i, j \in 1..NELEMS : i # j => ~Occurs(message[i], message[j])
  /\ Called =>
       /\ Cardinality(MatchingRows(whole_msg)) <= 1
       /\ \A i \in MatchingRows(whole_msg) : elementId = id[i]
       /\ ReversedScan(whole_msg, NELEMS) = elementId

\* C23 witness: a message that starts with "calling external" and holds
\* another registered prefix later was classified by its one matching row.
C23_Witness ==
  /\ whole_msg = msg_calling_external \o msg_execve
  /\ MatchingRows(whole_msg) = { 3 }
  /\ elementId = id_calling_external
  /\ ReversedScan(whole_msg, NELEMS) = id_calling_external

RECURSIVE JoinNonEmpty(_, _, _)
\* the non-empty strings of ss from position i on, in their order, with sep
\* between two of them
JoinNonEmpty(ss, sep, i) ==
  IF i > Len(ss) THEN <<>>
  ELSE IF ss[i] = <<>> THEN JoinNonEmpty(ss, sep, i + 1)
  ELSE LET rest == JoinNonEmpty(ss, sep, i + 1)
       IN  IF rest = <<>> THEN ss[i] ELSE ss[i] \o sep \o rest

\* C24 as stated: for every vector, the empty one and one of empty strings
\* included, mkString returns its non-empty strings in their order joined
\* by sep, without a leading or trailing separator.
C24_MkStringTotal ==
  node.type = "mkString" =>
    /\ node.value.returned
    /\ xml = JoinNonEmpty(node.value.ss, node.value.sep, 1)

\* a klee_error step on an open report appends the error's Failure element,
\* "</results>" and "</analysis>", in this order, closes the file and exits
C27_ErrorStep ==
  (IsCallStep /\ calls'[Len(calls')].fn = "klee_error"
              /\ klee_firehose_file = "open")
    => LET c == calls'[Len(calls')]
           n == Len(firehose_xml)
       IN  /\ Len(firehose_xml') = n + 3
           /\ SubSeq(firehose_xml', 1, n) = firehose_xml
           /\ firehose_xml'[n + 1].type = "Failure"
           /\ firehose_xml'[n + 1].value.message
                = Message(vsprintf(StrAt(c.msg), c.ap))
           /\ firehose_xml'[n + 2] = TagLine(xml_results_close)
           /\ firehose_xml'[n + 3] = TagLine(xml_analysis_close)
           /\ klee_firehose_file' = "closed"
           /\ exited'

\* once the report is closed it ends with the two closing tags, every
\* element precedes them, and the process has exited
C27_ClosedReport ==
  klee_firehose_file = "closed" =>
    LET n == Len(firehose_xml)
    IN  /\ n >= 3
        /\ firehose_xml[n - 1] = TagLine(xml_results_close)
        /\ firehose_xml[n] = TagLine(xml_analysis_close)
        /\ firehose_xml[n - 2].type = "Failure"
        /\ \A k \in 1..(n - 2) : firehose_xml[k].type \in {"Info", "Failure"}
        /\ exited

\* C27: on klee_error with the report enabled the error's own Failure
\* element is written first, then "</results>", then "</analysis>", then
\* the file is closed and the process exits; the two closing tags are the
\* last content of the report and no Info or Failure element follows them.
C27_ErrorFinalizes ==
  /\ []C27_ClosedReport
  /\ [][C27_ErrorStep]_vars
  /\ [][klee_firehose_file = "closed" => firehose_xml' = firehose_xml]_vars

\* C27 witness: klee_error ended a run whose report already held two
\* elements; its Failure and the closing tags are the last three lines.
C27_Witness ==
  /\ exited
  /\ klee_firehose_file = "closed"
  /\ Len(firehose_xml) = 5
  /\ calls[Len(calls)].fn = "klee_error"
  /\ firehose_xml[3].type = "Failure"
  /\ firehose_xml[5] = TagLine(xml_analysis_close)

\* the classes with a toXML
ValueTypes ==
  { "Point", "Range", "File", "Function", "Location", "Message", "Notes",
    "State", "Trace", "Issue", "Failure", "Info", "Results", "Generator",
    "Metadata", "Analysis" }

\* the text that opens the element of the class `type'
OpeningTagOf(type) ==
  CASE type = "Point" -> xml_point_column
    [] type = "Range" -> xml_range_open
    [] type = "File" -> xml_file_given_path
    [] type = "Function" -> xml_function_name
    [] type = "Location" -> xml_location_open
    [] type = "Message" -> xml_message_open
    [] type = "Notes" -> xml_notes_open
    [] type = "State" -> xml_state_open
    [] type = "Trace" -> xml_trace_open
    [] type = "Issue" -> xml_issue_open
    [] type = "Failure" -> xml_failure_id
    [] type = "Info" -> xml_info_id
    [] type = "Results" -> xml_results_open
    [] type = "Generator" -> xml_generator_name
    [] type = "Metadata" -> xml_metadata_open
    [] type = "Analysis" -> xml_analysis_open

\* C28: for every value type toXML(x) is the empty string only if x equals
\* the type's absent sentinel; the markup of every other node is not empty
\* and begins with the opening tag of the node's own element.
C28_EmptyOnlyForSentinel ==
  node.type \in ValueTypes =>
    LET tag == OpeningTagOf(node.type)
        absent == EqOf(node.type, node.value, DummyOf(node.type))
    IN  /\ xml = <<>> <=> absent
        /\ ~absent => /\ Len(xml) >= Len(tag)
                      /\ SubSeq(xml, 1, Len(tag)) = tag

\* C28 witness: a Location that differs from the absent Location in its
\* function only was serialized to a location element.
C28_Witness ==
  /\ node.type = "Location"
  /\ File_eq(node.value.file, dummyFile)
  /\ ~Function_eq(node.value.function, dummyFunction)
  /\ Range_eq(node.value.range, dummyRange)
  /\ Point_eq(node.value.point, dummyPoint)
  /\ SubSeq(xml, 1, Len(xml_location_open)) = xml_location_open

PointElements ==
  { k \in 1..Len(xml) :
      /\ k + Len(xml_point_column) - 1 <= Len(xml)
      /\ SubSeq(xml, k, k + Len(xml_point_column) - 1) = xml_point_column }

\* C30 as stated: the range element of every Range that is not the absent
\* Range holds exactly two point elements, also when exactly one endpoint
\* is the absent Point (0,0), and when both endpoints are present the first
\* is the element of P1 and the second the element of P2.
C30_TwoPointElements ==
  (node.type = "Range" /\ ~Range_eq(node.value, dummyRange)) =>
    /\ Cardinality(PointElements) = 2
    /\ ( /\ ~Point_eq(node.value.p1, dummyPoint)
         /\ ~Point_eq(node.value.p2, dummyPoint) )
         => xml = xml_range_open \o sep_newline
                    \o Point_toXML(node.value.p1) \o sep_newline
                    \o Point_toXML(node.value.p2) \o sep_newline
                    \o xml_range_close

-----------------------------------------------------------------------------
(* Properties of klee_warning_once under threads (SpecThreads).            *)

\* the threads that have presented the key k
Presenting(k) == { t \in Threads : pc[t] # "idle" /\ frame[t].key = k }

\* the threads that are between entering klee_warning_once and returning
InCall == { t \in Threads : pc[t] \notin { "idle", "done" } }

\* C22: when every call of klee_warning_once runs under the one external
\* lock, at most one thread is inside the call, and of the threads that
\* present the same key at most one inserts it and at most one emits the
\* warning, exactly one of each once they have all returned.
C22_OneEmitterUnderLock ==
  serialized =>
    /\ Cardinality(InCall) <= 1
    /\ \A u \in Threads :
         LET P == Presenting(frame[u].key)
             inserters == { t \in P : frame[t].inserted }
             emitters == { t \in P : frame[t].emitted }
         IN  pc[u] # "idle" =>
               /\ Cardinality(inserters) <= 1
               /\ Cardinality(emitters) <= 1
               /\ emitters \subseteq inserters
               /\ (\A t \in P : pc[t] = "done")
                    => /\ Cardinality(inserters) = 1
                       /\ Cardinality(emitters) = 1
                       /\ frame[u].key \in keys
    /\ Len(stderr_out) = Cardinality({ t \in Threads : frame[t].emitted })
    /\ Len(stderr_out) <= Cardinality(keys)

\* C22 witness: under the lock two threads presented the same key through
\* different messages, both returned, and only one of them emitted.
C22_Witness ==
  /\ serialized
  /\ pc[1] = "done" /\ pc[2] = "done"
  /\ frame[1].key = frame[2].key
  /\ frame[1].msg # frame[2].msg
  /\ frame[1].emitted # frame[2].emitted
  /\ Cardinality(keys) = 1

=============================================================================
